---- MODULE Spec2Model ----
(***************************************************************************)
(* A model of the CPU dot-general engine of gomlx's simplego backend:      *)
(*   - the shape classifier and the float32 fast path (dotgeneral fast     *)
(*     path source, src/unnamed/part_003),                                 *)
(*   - the capability detectors (dotgeneral_*_detect_*.go).                *)
(* Float32 values are modelled by small integers: every product and sum    *)
(* the model forms is far below 2^24, so float32 arithmetic on them is     *)
(* exact and Integers compute what the Go code computes.                   *)
(***************************************************************************)
EXTENDS Integers, Sequences, FiniteSets, TLC

VARIABLES
    \* ---- dot-general operands (Buffer, dotGeneralNodeData, hasNEON) ----
    lhs,        \* *Buffer: [shape |-> [DType, Dimensions], flat |-> Seq(Int)]
    rhs,        \* *Buffer
    output,     \* *Buffer
    params,     \* *dotGeneralNodeData
    hasNEON,    \* package-level capability flag read by the fast path
    ret,        \* outcome of execDotGeneralFastPath: "idle", "true", "false", "panic"
    writes,     \* the stores the call performed, in program order
    classified, \* results of the classifier functions on the operands
    \* ---- capability detection ----
    goos,       \* runtime.GOOS
    goarch,     \* runtime.GOARCH
    noasm,      \* the noasm build tag
    fp16File,   \* the source file that provides detectFP16NEON / detectBF16NEON
    sysctl,     \* the answers of syscall.Sysctl, per key
    flags,      \* the detected capability flags ("unset" until evaluated)
    queried,    \* per detector, the sysctl keys it has queried
    \* ---- concurrent first callers of detectSME (sync.Once) ----
    pc,         \* per caller: position inside detectSME
    onceDone,   \* sync.Once.done
    onceMutex,  \* sync.Once.m: the caller holding it, or 0
    smeDetected,\* the package variable smeDetected
    smeWrites,  \* number of stores to smeDetected
    bodyRuns,   \* number of times the detection body started
    bodyEnds,   \* number of times the detection body completed
    returned,   \* per caller: the values its calls of detectSME returned
    \* ---- one execution of dotProduct_sme_asm ----
    smeArgs,    \* the arguments and the machine: [a, b, n, vl]
    smePc,      \* the label / instruction group the execution is at
    smeReg,     \* the registers: R0, R1, R2, R3, R4, R8, R9, s0, z2
    smeMode,    \* PSTATE.SM: streaming mode active
    smeStack,   \* the result slot 12(RSP)
    smeRet,     \* ret+24(FP)
    smeTrace,   \* the mode switches, result store / reload and RET, in order
    smeReads,   \* the element loads: [idx, loop], in order
    \* ---- concurrent invocations of a block-tiled kernel ----
    tileIn,     \* what the kernel closes over: [lhs, rhs, out0, nb, nr, nc, dim]
    tileOut,    \* the flat data of the output buffer
    tileJob,    \* per invocation: [tile, row, col, phase, sums, written]
    \* ---- a KVCache used on its own ----
    cache,      \* the KVCache
    cacheOp,    \* the last call on it: [op, n, layer, keys, values, panic, ret]
    released,   \* the tensors FinalizeAll has been called on
    \* ---- a seq2seq Batch and its Model ----
    mdl,        \* the Model: submodels, backendType, Config.NumLayers
    bat,        \* the Batch
    gen,        \* the frame of the current (or last) Generate call
    hist,       \* the last call that returned: [op, err, called, rel], and
                \* encoderOk: whether a RunEncoder has succeeded on the batch
    \* ---- one call of dotProductInnerLoopSME ----
    inner       \* its arguments, position, four sums and assembly calls made

dotVars    == <<lhs, rhs, output, params, hasNEON, ret, writes, classified>>
detectVars == <<goos, goarch, noasm, fp16File, sysctl, flags, queried>>
onceVars   == <<pc, onceDone, onceMutex, smeDetected, smeWrites, bodyRuns, bodyEnds, returned>>
smeVars    == <<smeArgs, smePc, smeReg, smeMode, smeStack, smeRet, smeTrace, smeReads>>
tileVars   == <<tileIn, tileOut, tileJob>>
cacheVars  == <<cache, cacheOp, released>>
batchVars  == <<mdl, bat, gen, hist>>
restVars   == <<smeVars, tileVars, cacheVars, batchVars, inner>>
vars       == <<dotVars, detectVars, onceVars, restVars>>

(***************************************************************************)
(* Bounds of the model.                                                    *)
(***************************************************************************)
MaxBatch == 2
MaxM == 2
MaxN == 5
MaxK == 8
MaxSeed == 1
MaxRank == 4
MaxAxes == 2
MaxCallers == 3
MaxCalls == 2

(***************************************************************************)
(* Small helpers for Go slices (0-based) held in TLA+ sequences (1-based). *)
(***************************************************************************)
At(flat, i) == flat[i + 1]

RECURSIVE Product(_)
Product(dims) == IF dims = <<>> THEN 1 ELSE Head(dims) * Product(Tail(dims))

Float32 == "Float32"
Float64 == "Float64"
DTypes == {Float32, Float64}

Rank(shape) == Len(shape.Dimensions)

(***************************************************************************)
(* Shape classifier.                                                       *)
(***************************************************************************)
\* A plausible slip: pattern 1 accepted whatever the rhs
\* contracting axis is.
isStandardMatmul_anyRhsAxis(lhsShape, rhsShape, lhsContractingAxes, rhsContractingAxes, lhsBatchAxes, rhsBatchAxes) ==
    LET lhsRank == Rank(lhsShape)
        rhsRank == Rank(rhsShape)
    IN  \/ /\ lhsRank = 2 /\ rhsRank = 2
           /\ Len(lhsContractingAxes) = 1 /\ Len(rhsContractingAxes) = 1
           /\ Len(lhsBatchAxes) = 0 /\ Len(rhsBatchAxes) = 0
           /\ At(lhsContractingAxes, 0) = 1
        \/ /\ lhsRank = 2 /\ rhsRank = 1
           /\ Len(lhsContractingAxes) = 1 /\ Len(rhsContractingAxes) = 1
           /\ Len(lhsBatchAxes) = 0 /\ Len(rhsBatchAxes) = 0
           /\ At(lhsContractingAxes, 0) = 1 /\ At(rhsContractingAxes, 0) = 0
        \/ /\ lhsRank = 3 /\ rhsRank = 3
           /\ Len(lhsContractingAxes) = 1 /\ Len(rhsContractingAxes) = 1
           /\ Len(lhsBatchAxes) = 1 /\ Len(rhsBatchAxes) = 1
           /\ At(lhsBatchAxes, 0) = 0 /\ At(rhsBatchAxes, 0) = 0
           /\ At(lhsContractingAxes, 0) = 2 /\ At(rhsContractingAxes, 0) = 1
        \/ /\ lhsRank = 4 /\ rhsRank = 4
           /\ Len(lhsContractingAxes) = 1 /\ Len(rhsContractingAxes) = 1
           /\ Len(lhsBatchAxes) = 2 /\ Len(rhsBatchAxes) = 2
           /\ At(lhsBatchAxes, 0) = 0 /\ At(lhsBatchAxes, 1) = 1
           /\ At(rhsBatchAxes, 0) = 0 /\ At(rhsBatchAxes, 1) = 1
           /\ At(lhsContractingAxes, 0) = 3 /\ At(rhsContractingAxes, 0) = 2

\* isStandardMatmul: four positional checks, tried in order; the first that
\* matches returns true, otherwise false.
isStandardMatmul(lhsShape, rhsShape, lhsContractingAxes, rhsContractingAxes, lhsBatchAxes, rhsBatchAxes) ==
    LET lhsRank == Rank(lhsShape)
        rhsRank == Rank(rhsShape)
    IN  IF /\ lhsRank = 2 /\ rhsRank = 2
           /\ Len(lhsContractingAxes) = 1 /\ Len(rhsContractingAxes) = 1
           /\ Len(lhsBatchAxes) = 0 /\ Len(rhsBatchAxes) = 0
           /\ At(lhsContractingAxes, 0) = 1 /\ At(rhsContractingAxes, 0) = 0
        THEN TRUE
        ELSE IF /\ lhsRank = 2 /\ rhsRank = 1
                /\ Len(lhsContractingAxes) = 1 /\ Len(rhsContractingAxes) = 1
                /\ Len(lhsBatchAxes) = 0 /\ Len(rhsBatchAxes) = 0
                /\ At(lhsContractingAxes, 0) = 1 /\ At(rhsContractingAxes, 0) = 0
        THEN TRUE
        ELSE IF /\ lhsRank = 3 /\ rhsRank = 3
                /\ Len(lhsContractingAxes) = 1 /\ Len(rhsContractingAxes) = 1
                /\ Len(lhsBatchAxes) = 1 /\ Len(rhsBatchAxes) = 1
                /\ At(lhsBatchAxes, 0) = 0 /\ At(rhsBatchAxes, 0) = 0
                /\ At(lhsContractingAxes, 0) = 2 /\ At(rhsContractingAxes, 0) = 1
        THEN TRUE
        ELSE IF /\ lhsRank = 4 /\ rhsRank = 4
                /\ Len(lhsContractingAxes) = 1 /\ Len(rhsContractingAxes) = 1
                /\ Len(lhsBatchAxes) = 2 /\ Len(rhsBatchAxes) = 2
                /\ At(lhsBatchAxes, 0) = 0 /\ At(lhsBatchAxes, 1) = 1
                /\ At(rhsBatchAxes, 0) = 0 /\ At(rhsBatchAxes, 1) = 1
                /\ At(lhsContractingAxes, 0) = 3 /\ At(rhsContractingAxes, 0) = 2
        THEN TRUE
        ELSE FALSE

\* The axes i in [from, rank) that are neither contracting nor batch, in
\* increasing order (the loop at lines 109-113).
RECURSIVE crossAxes(_, _, _, _)
crossAxes(i, rank, isContracting, isBatch) ==
    IF i >= rank THEN <<>>
    ELSE IF i \notin isContracting /\ i \notin isBatch
         THEN <<i>> \o crossAxes(i + 1, rank, isContracting, isBatch)
         ELSE crossAxes(i + 1, rank, isContracting, isBatch)

Range(seq) == {seq[i] : i \in DOMAIN seq}

\* expectedOrder: batch axes, then cross axes, then contracting axes.
expectedOrder(shape, contractingAxes, batchAxes) ==
    batchAxes
        \o crossAxes(0, Rank(shape), Range(contractingAxes), Range(batchAxes))
        \o contractingAxes

isMemoryContiguous(shape, contractingAxes, batchAxes) ==
    IF Rank(shape) = 0 THEN TRUE
    ELSE LET order == expectedOrder(shape, contractingAxes, batchAxes)
         IN  \A i \in DOMAIN order : order[i] = i - 1

canUseFastPath(l, r, p) ==
    IF l.shape.DType # Float32 THEN FALSE
    ELSE IF ~isStandardMatmul(l.shape, r.shape,
                              p.lhsContractingAxes, p.rhsContractingAxes,
                              p.lhsBatchAxes, p.rhsBatchAxes)
    THEN FALSE
    ELSE TRUE

(***************************************************************************)
(* Dot-product primitives.                                                 *)
(***************************************************************************)
\* The scalar fallback: first the loop unrolled by 8 (lines 215-224) ...
RECURSIVE scalarUnrolled8(_, _, _, _, _, _, _)
scalarUnrolled8(lhsFlat, rhsFlat, lhsRowStart, rhsColStart, contractingSize, k, sum) ==
    IF k + 7 < contractingSize
    THEN scalarUnrolled8(lhsFlat, rhsFlat, lhsRowStart, rhsColStart, contractingSize, k + 8,
            sum + ( At(lhsFlat, lhsRowStart + k)     * At(rhsFlat, rhsColStart + k)
                  + At(lhsFlat, lhsRowStart + k + 1) * At(rhsFlat, rhsColStart + k + 1)
                  + At(lhsFlat, lhsRowStart + k + 2) * At(rhsFlat, rhsColStart + k + 2)
                  + At(lhsFlat, lhsRowStart + k + 3) * At(rhsFlat, rhsColStart + k + 3)
                  + At(lhsFlat, lhsRowStart + k + 4) * At(rhsFlat, rhsColStart + k + 4)
                  + At(lhsFlat, lhsRowStart + k + 5) * At(rhsFlat, rhsColStart + k + 5)
                  + At(lhsFlat, lhsRowStart + k + 6) * At(rhsFlat, rhsColStart + k + 6)
                  + At(lhsFlat, lhsRowStart + k + 7) * At(rhsFlat, rhsColStart + k + 7) ))
    ELSE [k |-> k, sum |-> sum]

\* ... then the remainder loop over fewer than 8 trailing elements (225-227).
RECURSIVE scalarRemainder(_, _, _, _, _, _, _)
scalarRemainder(lhsFlat, rhsFlat, lhsRowStart, rhsColStart, contractingSize, k, sum) ==
    IF k < contractingSize
    THEN scalarRemainder(lhsFlat, rhsFlat, lhsRowStart, rhsColStart, contractingSize, k + 1,
            sum + At(lhsFlat, lhsRowStart + k) * At(rhsFlat, rhsColStart + k))
    ELSE sum

scalarDot(lhsFlat, rhsFlat, lhsRowStart, rhsColStart, contractingSize) ==
    LET u == scalarUnrolled8(lhsFlat, rhsFlat, lhsRowStart, rhsColStart, contractingSize, 0, 0)
    IN  scalarRemainder(lhsFlat, rhsFlat, lhsRowStart, rhsColStart, contractingSize, u.k, u.sum)

\* The vector-extension primitives are assembly that is not part of the
\* sources at hand; they are taken to compute what their contract says:
\* the dot product of n elements starting at a and at b.
RECURSIVE dotProduct_neon_asm(_, _, _, _, _)
dotProduct_neon_asm(aFlat, a, bFlat, b, n) ==
    IF n <= 0 THEN 0
    ELSE dotProduct_neon_asm(aFlat, a, bFlat, b, n - 1)
            + At(aFlat, a + n - 1) * At(bFlat, b + n - 1)

\* Four dot products sharing the run at a; the j-th uses the run at b + j*bStride.
dotProductGroup4_neon_asm(aFlat, a, bFlat, b, bStride, n) ==
    [j \in 0..3 |-> dotProduct_neon_asm(aFlat, a, bFlat, b + j * bStride, n)]

(***************************************************************************)
(* execDotGeneralFastPathFloat32.  The result is the list of stores the    *)
(* routine performs, in program order; each store names the buffer, the    *)
(* flat index, the value, the primitive that produced it and the loop      *)
(* indices (batchIdx, m, n) it was issued for.                             *)
(***************************************************************************)
Store(buf, idx, val, prim, batchIdx, m, n) ==
    [buf |-> buf, idx |-> idx, val |-> val, prim |-> prim,
     batchIdx |-> batchIdx, m |-> m, n |-> n]

lhsBatchStride(p) == p.lhsCrossSize * p.contractingSize
rhsBatchStride(p) == p.rhsCrossSize * p.contractingSize
outputBatchStride(p) == p.lhsCrossSize * p.rhsCrossSize

\* The vector tier taken whatever the contracted length.
useNEON_anyLength(neon, p) == neon
useNEON(neon, p) == neon /\ p.contractingSize >= 4

lhsRowStart(lhsBaseIdx, m, p) == lhsBaseIdx + m * p.contractingSize

\* A slip in the row stride of the output: the row index scaled by K, not N.
outputRowStart_strideK(outputBaseIdx, m, p) == outputBaseIdx + m * p.contractingSize

outputRowStart(outputBaseIdx, m, p) == outputBaseIdx + m * p.rhsCrossSize

rhsColStart(rhsBaseIdx, n, p) == rhsBaseIdx + n * p.contractingSize

\* Lines 186-198: four columns per call of the grouped primitive.
RECURSIVE group4Loop(_, _, _, _, _, _, _, _)
group4Loop(lhsFlat, rhsFlat, p, batchIdx, m, rhsBaseIdx, n, acc) ==
    IF n + 3 < p.rhsCrossSize
    THEN LET lhsBaseIdx == batchIdx * lhsBatchStride(p)
             outputBaseIdx == batchIdx * outputBatchStride(p)
             row == lhsRowStart(lhsBaseIdx, m, p)
             out == outputRowStart(outputBaseIdx, m, p)
             rhsCol0Start == rhsColStart(rhsBaseIdx, n, p)
             r == dotProductGroup4_neon_asm(lhsFlat, row, rhsFlat, rhsCol0Start,
                                            p.contractingSize, p.contractingSize)
         IN  group4Loop(lhsFlat, rhsFlat, p, batchIdx, m, rhsBaseIdx, n + 4,
                acc \o << Store("output", out + n,     r[0], "group4", batchIdx, m, n),
                          Store("output", out + n + 1, r[1], "group4", batchIdx, m, n + 1),
                          Store("output", out + n + 2, r[2], "group4", batchIdx, m, n + 2),
                          Store("output", out + n + 3, r[3], "group4", batchIdx, m, n + 3) >>)
    ELSE [n |-> n, acc |-> acc]

\* Lines 202-231: the remaining columns, one at a time.
RECURSIVE remainingColumns(_, _, _, _, _, _, _, _, _)
remainingColumns(neon, lhsFlat, rhsFlat, p, batchIdx, m, rhsBaseIdx, n, acc) ==
    IF n < p.rhsCrossSize
    THEN LET lhsBaseIdx == batchIdx * lhsBatchStride(p)
             outputBaseIdx == batchIdx * outputBatchStride(p)
             row == lhsRowStart(lhsBaseIdx, m, p)
             out == outputRowStart(outputBaseIdx, m, p)
             col == rhsColStart(rhsBaseIdx, n, p)
             st  == IF useNEON(neon, p)
                    THEN Store("output", out + n,
                               dotProduct_neon_asm(lhsFlat, row, rhsFlat, col, p.contractingSize),
                               "neon", batchIdx, m, n)
                    ELSE Store("output", out + n,
                               scalarDot(lhsFlat, rhsFlat, row, col, p.contractingSize),
                               "scalar", batchIdx, m, n)
         IN  remainingColumns(neon, lhsFlat, rhsFlat, p, batchIdx, m, rhsBaseIdx, n + 1,
                              Append(acc, st))
    ELSE acc

\* One iteration of the m loop (lines 179-232).
rowStores(neon, lhsFlat, rhsFlat, p, batchIdx, m) ==
    LET rhsBaseIdx == batchIdx * rhsBatchStride(p)
        g == IF useNEON(neon, p) /\ p.rhsCrossSize >= 4
             THEN group4Loop(lhsFlat, rhsFlat, p, batchIdx, m, rhsBaseIdx, 0, <<>>)
             ELSE [n |-> 0, acc |-> <<>>]
    IN  remainingColumns(neon, lhsFlat, rhsFlat, p, batchIdx, m, rhsBaseIdx, g.n, g.acc)

RECURSIVE rowLoop(_, _, _, _, _, _)
rowLoop(neon, lhsFlat, rhsFlat, p, batchIdx, m) ==
    IF m < p.lhsCrossSize
    THEN rowStores(neon, lhsFlat, rhsFlat, p, batchIdx, m)
            \o rowLoop(neon, lhsFlat, rhsFlat, p, batchIdx, m + 1)
    ELSE <<>>

RECURSIVE batchLoop(_, _, _, _, _)
batchLoop(neon, lhsFlat, rhsFlat, p, batchIdx) ==
    IF batchIdx < p.batchSize
    THEN rowLoop(neon, lhsFlat, rhsFlat, p, batchIdx, 0)
            \o batchLoop(neon, lhsFlat, rhsFlat, p, batchIdx + 1)
    ELSE <<>>

\* The three type assertions of lines 158-160 panic when a buffer does not
\* hold []float32; otherwise the loops run.
execDotGeneralFastPathFloat32(neon, l, r, p, o) ==
    IF l.shape.DType # Float32 \/ r.shape.DType # Float32 \/ o.shape.DType # Float32
    THEN [panic |-> TRUE, stores |-> <<>>]
    ELSE [panic |-> FALSE, stores |-> batchLoop(neon, l.flat, r.flat, p, 0)]

\* A slip in the gate: the float32 routine runs first and the advisory
\* result is computed afterwards.
execDotGeneralFastPath_runsUngated(neon, l, r, p, o) ==
    LET e == execDotGeneralFastPathFloat32(neon, l, r, p, o)
    IN  IF e.panic THEN [ret |-> "panic", stores |-> <<>>]
        ELSE [ret |-> IF canUseFastPath(l, r, p) THEN "true" ELSE "false",
              stores |-> e.stores]

execDotGeneralFastPath(neon, l, r, p, o) ==
    IF ~canUseFastPath(l, r, p)
    THEN [ret |-> "false", stores |-> <<>>]
    ELSE LET e == execDotGeneralFastPathFloat32(neon, l, r, p, o)
         IN  IF e.panic THEN [ret |-> "panic", stores |-> <<>>]
             ELSE [ret |-> "true", stores |-> e.stores]

\* The contents of buffer `name` after the stores `ws`, applied in order.
RECURSIVE ApplyStores(_, _, _)
ApplyStores(flat, name, ws) ==
    IF ws = <<>> THEN flat
    ELSE LET w == Head(ws)
         IN  ApplyStores(IF w.buf = name THEN [flat EXCEPT ![w.idx + 1] = w.val] ELSE flat,
                         name, Tail(ws))

(***************************************************************************)
(* Operands.  The buffers and the node data are built the way the caller   *)
(* of the fast path builds them: a flat array of as many elements as the   *)
(* shape has, the output shaped (batch, lhs cross, rhs cross), and the     *)
(* sizes of the node data taken from the shapes and the axis lists.        *)
(***************************************************************************)
\* Integer-valued contents in -2..2, not constant and not symmetric.
Gen(seed, salt, i) == (((seed + 2) * (i + 1) + salt + seed * i * i) % 5) - 2

MkBuffer(dtype, dims, seed, salt) ==
    [shape |-> [DType |-> dtype, Dimensions |-> dims],
     flat  |-> [i \in 1..Product(dims) |-> Gen(seed, salt, i - 1)]]

\* The sizes of the axes of `dims` listed in `axes`.
AxisSizes(dims, axes) == [i \in DOMAIN axes |-> dims[axes[i] + 1]]

CrossSizes(dims, contractingAxes, batchAxes) ==
    AxisSizes(dims, crossAxes(0, Len(dims), Range(contractingAxes), Range(batchAxes)))

NodeData(lhsDims, rhsDims, lca, rca, lba, rba) ==
    [lhsContractingAxes |-> lca, rhsContractingAxes |-> rca,
     lhsBatchAxes |-> lba, rhsBatchAxes |-> rba,
     batchSize       |-> Product(AxisSizes(lhsDims, lba)),
     lhsCrossSize    |-> Product(CrossSizes(lhsDims, lca, lba)),
     rhsCrossSize    |-> Product(CrossSizes(rhsDims, rca, rba)),
     contractingSize |-> Product(AxisSizes(lhsDims, lca))]

OutputDims(lhsDims, rhsDims, lca, rca, lba, rba) ==
    AxisSizes(lhsDims, lba) \o CrossSizes(lhsDims, lca, lba) \o CrossSizes(rhsDims, rca, rba)

Operands(ld, rd, lhsDims, rhsDims, lca, rca, lba, rba, seed) ==
    /\ lhs = MkBuffer(ld, lhsDims, seed, 0)
    /\ rhs = MkBuffer(rd, rhsDims, seed, 1)
    /\ output = MkBuffer(ld, OutputDims(lhsDims, rhsDims, lca, rca, lba, rba), seed, 3)
    /\ params = NodeData(lhsDims, rhsDims, lca, rca, lba, rba)

NotClassified ==
    [done |-> FALSE, std |-> FALSE, lhsContig |-> FALSE, rhsContig |-> FALSE, canUse |-> FALSE]

\* The layouts the fast-path specification draws its operands from: the four
\* canonical ones and two that are not canonical.
Layouts == {"MatMat", "MatVec", "Batched", "Batched2", "Transposed", "RhsTransposed"}

LayoutOperands(layout, ld, rd, b, b2, m, n, k, seed) ==
    CASE layout = "MatMat" ->
            Operands(ld, rd, <<m, k>>, <<k, n>>, <<1>>, <<0>>, <<>>, <<>>, seed)
      [] layout = "MatVec" ->
            Operands(ld, rd, <<m, k>>, <<k>>, <<1>>, <<0>>, <<>>, <<>>, seed)
      [] layout = "Batched" ->
            Operands(ld, rd, <<b, m, k>>, <<b, k, n>>, <<2>>, <<1>>, <<0>>, <<0>>, seed)
      [] layout = "Batched2" ->
            Operands(ld, rd, <<b, b2, m, k>>, <<b, b2, k, n>>, <<3>>, <<2>>, <<0, 1>>, <<0, 1>>, seed)
      [] layout = "Transposed" ->
            Operands(ld, rd, <<k, m>>, <<n, k>>, <<0>>, <<1>>, <<>>, <<>>, seed)
      [] layout = "RhsTransposed" ->
            Operands(ld, rd, <<m, k>>, <<n, k>>, <<1>>, <<1>>, <<>>, <<>>, seed)

\* Axis lists of at most MaxAxes distinct axes of a shape of the given rank.
AxisLists(rank) ==
    { s \in UNION { [1..l -> 0..(rank - 1)] : l \in 0..MaxAxes } :
        \A i, j \in DOMAIN s : i # j => s[i] # s[j] }

Disjoint(s, t) == Range(s) \cap Range(t) = {}

(***************************************************************************)
(* The parts of the state a specification does not use stay at rest.       *)
(***************************************************************************)
DotAtRest ==
    /\ Operands(Float32, Float32, <<1, 1>>, <<1, 1>>, <<1>>, <<0>>, <<>>, <<>>, 0)
    /\ hasNEON = FALSE
    /\ ret = "idle"
    /\ writes = <<>>
    /\ classified = NotClassified

DetectAtRest ==
    /\ goos = "linux"
    /\ goarch = "amd64"
    /\ noasm = FALSE
    /\ fp16File = "none"
    /\ sysctl = <<>>
    /\ flags = [hasSME |-> "unset", fp16 |-> "unset", bf16 |-> "unset"]
    /\ queried = [hasSME |-> {}, fp16 |-> {}, bf16 |-> {}]

OnceAtRest ==
    /\ pc = <<>>
    /\ onceDone = FALSE
    /\ onceMutex = 0
    /\ smeDetected = FALSE
    /\ smeWrites = 0
    /\ bodyRuns = 0
    /\ bodyEnds = 0
    /\ returned = <<>>

InnerAtRest ==
    inner = [pc |-> "rest", lhsFlat |-> <<>>, rhsFlat |-> <<>>, outputFlat |-> <<>>,
             lhsIdx |-> 0, rhsIdx |-> 0, outputIdx |-> 0, blockDim |-> 0, vl |-> 1,
             sums |-> <<0, 0, 0, 0>>, j |-> 0, calls |-> 0]

SmeAtRest ==
    /\ smeArgs = [a |-> <<>>, b |-> <<>>, n |-> 0, vl |-> 1]
    /\ smePc = "rest"
    /\ smeReg = [R0 |-> 0, R1 |-> 0, R2 |-> 0, R3 |-> 0, R4 |-> 0, R8 |-> 0, R9 |-> 0,
                 s0 |-> 0, z2 |-> <<>>]
    /\ smeMode = FALSE
    /\ smeStack = 0
    /\ smeRet = 0
    /\ smeTrace = <<>>
    /\ smeReads = <<>>

TileAtRest ==
    /\ tileIn = [lhs |-> <<>>, rhs |-> <<>>, out0 |-> <<>>, nb |-> 0, nr |-> 0, nc |-> 0, dim |-> 0]
    /\ tileOut = <<>>
    /\ tileJob = <<>>

\* A tensor is known by where it came from; NilTensor is the nil pointer.
Tensor(src, n, i) == [src |-> src, n |-> n, i |-> i]
NilTensor == Tensor("nil", 0, 0)

\* The nil *KVCache.
NilKVCache ==
    [nil |-> TRUE, NumLayers |-> 0,
     SelfAttentionKeys |-> <<>>, SelfAttentionValues |-> <<>>,
     CrossAttentionKeys |-> <<>>, CrossAttentionValues |-> <<>>,
     CurrentLength |-> 0]

NoCacheOp ==
    [op |-> "none", n |-> 0, layer |-> 0, keys |-> NilTensor, values |-> NilTensor,
     panic |-> FALSE, ret |-> <<>>]

CacheAtRest ==
    /\ cache = NilKVCache
    /\ cacheOp = NoCacheOp
    /\ released = {}

\* The nil *ModelConfig, and DefaultModelConfig() (MaxLength 512 is not
\* tracked).
NilConfig == [nil |-> TRUE, NumLayers |-> 0, EOSTokenID |-> 0, DecoderStartTokenID |-> 0]
DefaultModelConfig == [nil |-> FALSE, NumLayers |-> 0, EOSTokenID |-> 1, DecoderStartTokenID |-> 0]

\* The zero Model: every pointer nil, the backend type the empty string.
ZeroModel ==
    [backend |-> "nil", backendType |-> "", ctx |-> "nil",
     EncoderModel |-> "nil", DecoderInitModel |-> "nil", DecoderModel |-> "nil",
     Config |-> NilConfig]

\* The zero Batch: every pointer nil, every flag false.  model is "nil" or
\* "m", the pointer to the Model (mdl) that NewBatch was called on.
ZeroBatch ==
    [model |-> "nil",
     InputIDs |-> NilTensor, AttentionMask |-> NilTensor, batchSize |-> 0, encoderSeqLen |-> 0,
     EncoderHiddenStates |-> NilTensor, EncoderOutputs |-> <<>>,
     kvCache |-> NilKVCache, decoderInputIDs |-> NilTensor, generatedIDs |-> <<>>,
     currentPosition |-> 0,
     encoderRun |-> FALSE, decoderInitd |-> FALSE, generationDone |-> FALSE]

\* The last call: its name, its error ("nil" for none), the executors it
\* invoked and the tensors it finalized; encoderOk tells whether a RunEncoder
\* has succeeded on the batch; setups and edits count the calls made on the
\* Model and directly on the batch's KV cache.
NoCall ==
    [op |-> "none", err |-> "nil", called |-> <<>>, rel |-> {}, encoderOk |-> FALSE,
     setups |-> 0, edits |-> 0]

IdleGenerate ==
    [pc |-> "idle", config |-> [MaxLength |-> 0, MinLength |-> 0, EOSTokenID |-> 0,
                                ForcedBOSTokenID |-> 0 - 1, ForcedEOSTokenID |-> 0 - 1],
     step |-> 0, finished |-> <<>>, numFinished |-> 0, currentIDs |-> <<>>,
     generatedIDs |-> <<>>, ret |-> <<>>]

BatchAtRest ==
    /\ mdl = ZeroModel
    /\ bat = ZeroBatch
    /\ gen = IdleGenerate
    /\ hist = NoCall

RestAtRest == SmeAtRest /\ TileAtRest /\ CacheAtRest /\ BatchAtRest /\ InnerAtRest

(***************************************************************************)
(* Specification of the classifier: the operands range over the ranks and  *)
(* the axis lists a dot-general node can carry (axes within the rank, no   *)
(* axis twice, as many contracting and batch axes on one side as on the    *)
(* other); Classify applies the three classifier functions to them.        *)
(***************************************************************************)
InitClassify ==
    /\ \E lr \in 0..MaxRank, rr \in 0..MaxRank, ld \in DTypes :
         \E lca \in AxisLists(lr) :
         \E lba \in {s \in AxisLists(lr) : Disjoint(lca, s)} :
         \E rca \in {s \in AxisLists(rr) : Len(s) = Len(lca)} :
         \E rba \in {s \in AxisLists(rr) : Len(s) = Len(lba) /\ Disjoint(rca, s)} :
            Operands(ld, ld, [i \in 1..lr |-> 1], [i \in 1..rr |-> 1],
                     lca, rca, lba, rba, 0)
    /\ hasNEON = FALSE
    /\ ret = "idle"
    /\ writes = <<>>
    /\ classified = NotClassified
    /\ DetectAtRest
    /\ OnceAtRest
    /\ RestAtRest

Classify ==
    /\ ~classified.done
    /\ classified' =
         [done |-> TRUE,
          std  |-> isStandardMatmul(lhs.shape, rhs.shape,
                                    params.lhsContractingAxes, params.rhsContractingAxes,
                                    params.lhsBatchAxes, params.rhsBatchAxes),
          lhsContig |-> isMemoryContiguous(lhs.shape, params.lhsContractingAxes, params.lhsBatchAxes),
          rhsContig |-> isMemoryContiguous(rhs.shape, params.rhsContractingAxes, params.rhsBatchAxes),
          canUse |-> canUseFastPath(lhs, rhs, params)]
    /\ UNCHANGED <<lhs, rhs, output, params, hasNEON, ret, writes, detectVars, onceVars, restVars>>

NextClassify == Classify

SpecClassify == InitClassify /\ [][NextClassify]_vars

(***************************************************************************)
(* Specification of the fast path: one call of execDotGeneralFastPath on   *)
(* operands of every layout, size, dtype and capability within the bounds. *)
(***************************************************************************)
InitFastPath ==
    /\ \E layout \in Layouts, ld \in DTypes, rd \in DTypes, seed \in 0..MaxSeed,
          b \in 0..MaxBatch, b2 \in 1..2, m \in 0..MaxM, n \in 0..MaxN, k \in 0..MaxK :
            /\ layout \notin {"Batched", "Batched2"} => b = 1
            /\ layout # "Batched2" => b2 = 1
            /\ layout = "MatVec" => n = 1
            /\ LayoutOperands(layout, ld, rd, b, b2, m, n, k, seed)
    /\ hasNEON \in BOOLEAN
    /\ ret = "idle"
    /\ writes = <<>>
    /\ classified = NotClassified
    /\ DetectAtRest
    /\ OnceAtRest
    /\ RestAtRest

\* The call: the stores the routine performs land in the buffers they name.
ExecDotGeneralFastPath ==
    /\ ret = "idle"
    /\ LET e == execDotGeneralFastPath(hasNEON, lhs, rhs, params, output)
       IN  /\ ret' = e.ret
           /\ writes' = e.stores
           /\ lhs' = [lhs EXCEPT !.flat = ApplyStores(lhs.flat, "lhs", e.stores)]
           /\ rhs' = [rhs EXCEPT !.flat = ApplyStores(rhs.flat, "rhs", e.stores)]
           /\ output' = [output EXCEPT !.flat = ApplyStores(output.flat, "output", e.stores)]
    /\ UNCHANGED <<params, hasNEON, classified, detectVars, onceVars, restVars>>

NextFastPath == ExecDotGeneralFastPath

SpecFastPath == InitFastPath /\ [][NextFastPath]_vars

(***************************************************************************)
(* Capability detection.                                                   *)
(*                                                                         *)
(* A syscall.Sysctl answer is [err, val]: val is the string returned, as   *)
(* the sequence of its bytes, and is empty when err is set.  Indexing an   *)
(* empty val is an evaluation error of the model, as val[0] on an empty    *)
(* string is a panic of the program.                                       *)
(***************************************************************************)
CharSpace == 32
CharM == 77

SysctlKeys ==
    {"hw.optional.arm.FEAT_SME", "hw.optional.arm.FEAT_FHM", "hw.optional.neon_fp16",
     "machdep.cpu.brand_string", "hw.optional.arm.FEAT_BF16"}

SysctlErr == [err |-> TRUE, val |-> <<>>]
SysctlOk(v) == [err |-> FALSE, val |-> v]

\* Answers of a capability bit: an error, an empty value, and first bytes 0, 1, 2.
BitAnswers == {SysctlErr, SysctlOk(<<>>), SysctlOk(<<0>>), SysctlOk(<<1>>), SysctlOk(<<2>>)}

\* Answers of the brand string: an error, "Apple M1", "M1" and "Intel".
BrandAnswers ==
    {SysctlErr,
     SysctlOk(<<65, 112, 112, 108, 101, CharSpace, CharM, 49>>),
     SysctlOk(<<CharM, 49>>),
     SysctlOk(<<73, 110, 116, 101, 108>>)}

B2S(b) == IF b THEN "true" ELSE "false"

\* Build constraints of the source files.
Tag_sme_detect_darwin_arm64_ignoresNoasm(os, arch, na) == os = "darwin" /\ arch = "arm64"
Tag_sme_detect_darwin_arm64(os, arch, na) == ~na /\ os = "darwin" /\ arch = "arm64"
Tag_sme_detect_fallback(os, arch, na) == na \/ os # "darwin" \/ arch # "arm64"
Tag_sme_arm64(os, arch, na) == ~na /\ arch = "arm64"
Tag_sme_stub(os, arch, na) == na \/ arch # "arm64"

\* The files that define detectFP16NEON and detectBF16NEON, and for each the
\* platforms its build constraint selects.
FP16Files ==
    {"dotgeneral_fp16_detect_arm64.go", "dotgeneral_fp16_detect_fallback.go",
     "part_003", "part_004", "part_005"}

Tag_fp16(file, os, arch) ==
    CASE file = "dotgeneral_fp16_detect_arm64.go" -> arch = "arm64"
      [] file = "dotgeneral_fp16_detect_fallback.go" ->
            arch # "arm64" \/ (arch = "arm64" /\ os # "darwin" /\ os # "linux")
      [] file = "part_003" -> arch # "arm64"
      [] file = "part_004" -> arch = "arm64"
      [] file = "part_005" -> os = "darwin" /\ arch = "arm64"

\* err == nil && len(val) > 0 && val[0] != 0
NonZeroAnswer(ans) == ~ans.err /\ Len(ans.val) > 0 /\ ans.val[1] # 0

\* The detection body mistaken for the test the other detectors use (!= 0).
smeDetectionBody_nonZero(ans) == ~ans.err /\ Len(ans.val) > 0 /\ ans.val[1] # 0

\* The body run under smeDetectedOnce: the value smeDetected ends with.
\* err == nil && len(hasSME) > 0 && hasSME[0] == 1
smeDetectionBody(ans) == ~ans.err /\ Len(ans.val) > 0 /\ ans.val[1] = 1

\* The package-level hasSME of the file the build selects: the result of
\* detectSME() on darwin/arm64 without noasm, the constant false elsewhere.
hasSMEInit(os, arch, na, env) ==
    CASE Tag_sme_detect_darwin_arm64(os, arch, na) ->
            [value |-> smeDetectionBody(env["hw.optional.arm.FEAT_SME"]),
             queried |-> {"hw.optional.arm.FEAT_SME"}]
      [] Tag_sme_detect_fallback(os, arch, na) ->
            [value |-> FALSE, queried |-> {}]

\* for i := range val { if val[i] == 'M' && i > 0 && val[i-1] == ' ' ... }
BrandNamesMSeries(val) ==
    \E i \in 0..(Len(val) - 1) : At(val, i) = CharM /\ i > 0 /\ At(val, i - 1) = CharSpace

\* The darwin branch of detectFP16NEON: three queries, tried in order.
detectFP16NEON_darwin(env) ==
    IF NonZeroAnswer(env["hw.optional.arm.FEAT_FHM"])
    THEN [value |-> TRUE, queried |-> {"hw.optional.arm.FEAT_FHM"}]
    ELSE IF NonZeroAnswer(env["hw.optional.neon_fp16"])
    THEN [value |-> TRUE, queried |-> {"hw.optional.arm.FEAT_FHM", "hw.optional.neon_fp16"}]
    ELSE [value |-> /\ ~env["machdep.cpu.brand_string"].err
                    /\ BrandNamesMSeries(env["machdep.cpu.brand_string"].val),
          queried |-> {"hw.optional.arm.FEAT_FHM", "hw.optional.neon_fp16",
                       "machdep.cpu.brand_string"}]

detectFP16NEON(file, os, arch, env) ==
    CASE file \in {"dotgeneral_fp16_detect_arm64.go", "part_004"} ->
            IF os = "darwin" THEN detectFP16NEON_darwin(env)
            ELSE [value |-> arch = "arm64", queried |-> {}]
      [] file = "part_005" -> detectFP16NEON_darwin(env)
      [] file \in {"dotgeneral_fp16_detect_fallback.go", "part_003"} ->
            [value |-> FALSE, queried |-> {}]

detectBF16NEON(file, os, arch, env) ==
    CASE file = "dotgeneral_fp16_detect_arm64.go" ->
            IF os = "darwin"
            THEN [value |-> NonZeroAnswer(env["hw.optional.arm.FEAT_BF16"]),
                  queried |-> {"hw.optional.arm.FEAT_BF16"}]
            ELSE [value |-> FALSE, queried |-> {}]
      [] file \in {"part_004", "part_005", "dotgeneral_fp16_detect_fallback.go", "part_003"} ->
            [value |-> FALSE, queried |-> {}]

(***************************************************************************)
(* Specification of the detectors: a build configuration, the file the     *)
(* build takes the FP16/BF16 detectors from, and the answers the system    *)
(* gives to the sysctl queries; each flag is evaluated once.               *)
(***************************************************************************)
AllErrors == [k \in SysctlKeys |-> SysctlErr]

InitDetect ==
    /\ goos \in {"darwin", "linux", "windows"}
    /\ goarch \in {"arm64", "amd64"}
    /\ noasm \in BOOLEAN
    /\ fp16File \in {f \in FP16Files : Tag_fp16(f, goos, goarch)}
    /\ IF goos = "darwin" /\ goarch = "arm64"
       THEN sysctl \in { f \in [SysctlKeys -> BitAnswers \cup BrandAnswers] :
                           /\ f["machdep.cpu.brand_string"] \in BrandAnswers
                           /\ \A k \in SysctlKeys \ {"machdep.cpu.brand_string"} :
                                 f[k] \in BitAnswers }
       ELSE sysctl = AllErrors
    /\ flags = [hasSME |-> "unset", fp16 |-> "unset", bf16 |-> "unset"]
    /\ queried = [hasSME |-> {}, fp16 |-> {}, bf16 |-> {}]
    /\ DotAtRest
    /\ OnceAtRest
    /\ RestAtRest

\* var hasSME = detectSME()   /   const hasSME = false
InitHasSME ==
    /\ flags.hasSME = "unset"
    /\ LET d == hasSMEInit(goos, goarch, noasm, sysctl)
       IN  /\ flags' = [flags EXCEPT !.hasSME = B2S(d.value)]
           /\ queried' = [queried EXCEPT !.hasSME = d.queried]
    /\ UNCHANGED <<goos, goarch, noasm, fp16File, sysctl, dotVars, onceVars, restVars>>

CallDetectFP16NEON ==
    /\ flags.fp16 = "unset"
    /\ LET d == detectFP16NEON(fp16File, goos, goarch, sysctl)
       IN  /\ flags' = [flags EXCEPT !.fp16 = B2S(d.value)]
           /\ queried' = [queried EXCEPT !.fp16 = d.queried]
    /\ UNCHANGED <<goos, goarch, noasm, fp16File, sysctl, dotVars, onceVars, restVars>>

CallDetectBF16NEON ==
    /\ flags.bf16 = "unset"
    /\ LET d == detectBF16NEON(fp16File, goos, goarch, sysctl)
       IN  /\ flags' = [flags EXCEPT !.bf16 = B2S(d.value)]
           /\ queried' = [queried EXCEPT !.bf16 = d.queried]
    /\ UNCHANGED <<goos, goarch, noasm, fp16File, sysctl, dotVars, onceVars, restVars>>

NextDetect == InitHasSME \/ CallDetectFP16NEON \/ CallDetectBF16NEON

SpecDetect == InitDetect /\ [][NextDetect]_vars

(***************************************************************************)
(* Concurrent callers of detectSME on darwin/arm64.  sync.Once.Do(f) is    *)
(*     if done.Load() == 0 { m.Lock(); defer m.Unlock()                    *)
(*                           if done.Load() == 0 { defer done.Store(1); f() } } *)
(* and each of its steps is one action.  A caller that has returned may    *)
(* call again, up to MaxCalls calls per caller.                            *)
(***************************************************************************)
Callers == 1..MaxCallers

InitOnce ==
    /\ goos = "darwin" /\ goarch = "arm64" /\ noasm = FALSE
    /\ fp16File = "none"
    /\ sysctl \in { f \in [SysctlKeys -> BitAnswers] :
                       \A k \in SysctlKeys \ {"hw.optional.arm.FEAT_SME"} : f[k] = SysctlErr }
    /\ flags = [hasSME |-> "unset", fp16 |-> "unset", bf16 |-> "unset"]
    /\ queried = [hasSME |-> {}, fp16 |-> {}, bf16 |-> {}]
    /\ pc = [t \in Callers |-> "idle"]
    /\ onceDone = FALSE
    /\ onceMutex = 0
    /\ smeDetected = FALSE
    /\ smeWrites = 0
    /\ bodyRuns = 0
    /\ bodyEnds = 0
    /\ returned = [t \in Callers |-> <<>>]
    /\ DotAtRest
    /\ RestAtRest

OnceFrame == UNCHANGED <<detectVars, dotVars, restVars>>

\* A caller enters detectSME.
CallDetectSME(t) ==
    /\ pc[t] = "idle"
    /\ Len(returned[t]) < MaxCalls
    /\ pc' = [pc EXCEPT ![t] = "fastCheck"]
    /\ UNCHANGED <<onceDone, onceMutex, smeDetected, smeWrites, bodyRuns, bodyEnds, returned>>
    /\ OnceFrame

\* A detectSME that guards the body with a plain flag test instead of
\* sync.Once: a caller that finds the flag clear runs the body unlocked.
OnceFastCheck_plainFlag(t) ==
    /\ pc[t] = "fastCheck"
    /\ IF onceDone
       THEN pc' = [pc EXCEPT ![t] = "return"] /\ UNCHANGED bodyRuns
       ELSE pc' = [pc EXCEPT ![t] = "body"] /\ bodyRuns' = bodyRuns + 1
    /\ UNCHANGED <<onceDone, onceMutex, smeDetected, smeWrites, bodyEnds, returned>>
    /\ OnceFrame

\* Do: if o.done.Load() == 0 { o.doSlow(f) }
OnceFastCheck(t) ==
    /\ pc[t] = "fastCheck"
    /\ pc' = [pc EXCEPT ![t] = IF onceDone THEN "return" ELSE "lock"]
    /\ UNCHANGED <<onceDone, onceMutex, smeDetected, smeWrites, bodyRuns, bodyEnds, returned>>
    /\ OnceFrame

\* doSlow: o.m.Lock()
OnceLock(t) ==
    /\ pc[t] = "lock"
    /\ onceMutex = 0
    /\ onceMutex' = t
    /\ pc' = [pc EXCEPT ![t] = "slowCheck"]
    /\ UNCHANGED <<onceDone, smeDetected, smeWrites, bodyRuns, bodyEnds, returned>>
    /\ OnceFrame

\* doSlow: if o.done.Load() == 0 { defer o.done.Store(1); f() }
OnceSlowCheck(t) ==
    /\ pc[t] = "slowCheck"
    /\ IF onceDone
       THEN pc' = [pc EXCEPT ![t] = "unlock"] /\ UNCHANGED bodyRuns
       ELSE pc' = [pc EXCEPT ![t] = "body"] /\ bodyRuns' = bodyRuns + 1
    /\ UNCHANGED <<onceDone, onceMutex, smeDetected, smeWrites, bodyEnds, returned>>
    /\ OnceFrame

\* The detection body: the sysctl query and, when it reports SME, the store
\* to smeDetected.
DetectionBody(t) ==
    /\ pc[t] = "body"
    /\ IF smeDetectionBody(sysctl["hw.optional.arm.FEAT_SME"])
       THEN smeDetected' = TRUE /\ smeWrites' = smeWrites + 1
       ELSE UNCHANGED <<smeDetected, smeWrites>>
    /\ bodyEnds' = bodyEnds + 1
    /\ pc' = [pc EXCEPT ![t] = "storeDone"]
    /\ UNCHANGED <<onceDone, onceMutex, bodyRuns, returned>>
    /\ OnceFrame

\* The deferred o.done.Store(1).
OnceStoreDone(t) ==
    /\ pc[t] = "storeDone"
    /\ onceDone' = TRUE
    /\ pc' = [pc EXCEPT ![t] = "unlock"]
    /\ UNCHANGED <<onceMutex, smeDetected, smeWrites, bodyRuns, bodyEnds, returned>>
    /\ OnceFrame

\* The deferred o.m.Unlock().
OnceUnlock(t) ==
    /\ pc[t] = "unlock"
    /\ onceMutex' = 0
    /\ pc' = [pc EXCEPT ![t] = "return"]
    /\ UNCHANGED <<onceDone, smeDetected, smeWrites, bodyRuns, bodyEnds, returned>>
    /\ OnceFrame

\* return smeDetected
ReturnSmeDetected(t) ==
    /\ pc[t] = "return"
    /\ returned' = [returned EXCEPT ![t] = Append(@, smeDetected)]
    /\ pc' = [pc EXCEPT ![t] = "idle"]
    /\ UNCHANGED <<onceDone, onceMutex, smeDetected, smeWrites, bodyRuns, bodyEnds>>
    /\ OnceFrame

NextOnce ==
    \E t \in Callers :
        \/ CallDetectSME(t)
        \/ OnceFastCheck(t)
        \/ OnceLock(t)
        \/ OnceSlowCheck(t)
        \/ DetectionBody(t)
        \/ OnceStoreDone(t)
        \/ OnceUnlock(t)
        \/ ReturnSmeDetected(t)

SpecOnce == InitOnce /\ [][NextOnce]_vars

(***************************************************************************)
(* Properties of the classifier and of the fast path.                      *)
(***************************************************************************)
LhsRank == Len(lhs.shape.Dimensions)
RhsRank == Len(rhs.shape.Dimensions)

\* The operands are the Matrix x Matrix pattern [M,K] x [K,N].
IsMatMat ==
    /\ LhsRank = 2 /\ RhsRank = 2
    /\ params.lhsContractingAxes = <<1>> /\ params.rhsContractingAxes = <<0>>
    /\ params.lhsBatchAxes = <<>> /\ params.rhsBatchAxes = <<>>

\* The naive triple loop: sum over k < K of lhs[m*K+k] * rhs[k*N+n].
RECURSIVE NaiveDot(_, _, _, _, _, _, _)
NaiveDot(lhsFlat, rhsFlat, m, n, K, N, k) ==
    IF k >= K THEN 0
    ELSE At(lhsFlat, m * K + k) * At(rhsFlat, k * N + n)
            + NaiveDot(lhsFlat, rhsFlat, m, n, K, N, k + 1)

\* C1: after the fast path returned true on the scalar tier for a
\* Matrix x Matrix pair, output[m*N+n] is the naive product sum over k of
\* lhs[m*K+k] * rhs[k*N+n], for every m < M and n < N.
C1_FastPathIsTrueProduct ==
    (ret = "true" /\ ~hasNEON /\ IsMatMat) =>
        LET M == lhs.shape.Dimensions[1]
            K == lhs.shape.Dimensions[2]
            N == rhs.shape.Dimensions[2]
        IN  \A m \in 0..(M - 1), n \in 0..(N - 1) :
                At(output.flat, m * N + n) = NaiveDot(lhs.flat, rhs.flat, m, n, K, N, 0)

\* The four positional patterns of the classifier, as the claim lists them.
FourPatterns ==
    LET lca == params.lhsContractingAxes
        rca == params.rhsContractingAxes
        lba == params.lhsBatchAxes
        rba == params.rhsBatchAxes
    IN  \/ LhsRank = 2 /\ RhsRank = 2 /\ lca = <<1>> /\ rca = <<0>> /\ lba = <<>> /\ rba = <<>>
        \/ LhsRank = 2 /\ RhsRank = 1 /\ lca = <<1>> /\ rca = <<0>> /\ lba = <<>> /\ rba = <<>>
        \/ LhsRank = 3 /\ RhsRank = 3 /\ lca = <<2>> /\ rca = <<1>> /\ lba = <<0>> /\ rba = <<0>>
        \/ LhsRank = 4 /\ RhsRank = 4 /\ lca = <<3>> /\ rca = <<2>>
              /\ lba = <<0, 1>> /\ rba = <<0, 1>>

\* Two rank-2 operands described with transposed contracting axes (lhs 0 / rhs 1).
IsTransposedPair ==
    /\ LhsRank = 2 /\ RhsRank = 2
    /\ params.lhsContractingAxes = <<0>> /\ params.rhsContractingAxes = <<1>>
    /\ params.lhsBatchAxes = <<>> /\ params.rhsBatchAxes = <<>>

\* C2: isStandardMatmul returns true exactly for the four positional
\* patterns; every other combination of ranks, axis counts and axis
\* positions, the transposed rank-2 pair among them, yields false.
C2_StandardMatmulIffFourPatterns ==
    classified.done =>
        /\ classified.std <=> FourPatterns
        /\ IsTransposedPair => ~classified.std

\* C2 witness: the classifier has accepted a rank-4 double-batched pair.
C2_Witness ==
    classified.done /\ classified.std /\ LhsRank = 4 /\ RhsRank = 4

\* C3: whenever canUseFastPath returns true, isMemoryContiguous holds for
\* lhs and for rhs with their (contracting, batch) axes.
C3_FastPathOnlyContiguous ==
    (classified.done /\ classified.canUse) =>
        (classified.lhsContig /\ classified.rhsContig)

\* C4: execDotGeneralFastPath returns false, with no panic and no store,
\* whenever the dtype of lhs or of rhs is not Float32.
C4_NonFloat32Declined ==
    (ret # "idle" /\ (lhs.shape.DType # Float32 \/ rhs.shape.DType # Float32)) =>
        (ret = "false" /\ writes = <<>>)

OutputSize == params.batchSize * params.lhsCrossSize * params.rhsCrossSize

\* The number of columns the grouped loop covers in a row: 4*floor(N/4)
\* when the grouped primitive is in use, none otherwise.
GroupedColumns ==
    IF hasNEON /\ params.contractingSize >= 4 /\ params.rhsCrossSize >= 4
    THEN 4 * (params.rhsCrossSize \div 4)
    ELSE 0

\* C5: when the fast path returns true, every output index in
\* [0, batchSize*M*N) is stored exactly once and no other index is stored;
\* the grouped loop stores the columns [0, 4*floor(N/4)) and the remainder
\* loop the rest; distinct (batch, row, column) triples store to distinct
\* indices.
C5_OutputWrittenExactlyOnce ==
    ret = "true" =>
        /\ \A i \in 0..(OutputSize - 1) :
              Cardinality({j \in DOMAIN writes : writes[j].idx = i}) = 1
        /\ \A j \in DOMAIN writes :
              /\ writes[j].buf = "output"
              /\ writes[j].idx \in 0..(OutputSize - 1)
              /\ writes[j].batchIdx \in 0..(params.batchSize - 1)
              /\ writes[j].m \in 0..(params.lhsCrossSize - 1)
              /\ writes[j].n \in 0..(params.rhsCrossSize - 1)
              /\ (writes[j].prim = "group4") <=> (writes[j].n < GroupedColumns)
        /\ \A i, j \in DOMAIN writes :
              (<<writes[i].batchIdx, writes[i].m, writes[i].n>>
                    # <<writes[j].batchIdx, writes[j].m, writes[j].n>>)
                 => writes[i].idx # writes[j].idx
        /\ Len(writes) = OutputSize

\* C5 witness: a successful batched call on the vector tier whose rows have
\* a grouped part and a remainder part.
C5_Witness ==
    /\ ret = "true" /\ hasNEON
    /\ params.batchSize = 2 /\ params.lhsCrossSize = 2
    /\ params.rhsCrossSize = 5 /\ params.contractingSize >= 4
    /\ \E j \in DOMAIN writes : writes[j].prim = "group4"
    /\ \E j \in DOMAIN writes : writes[j].prim = "neon"

\* C6: a call of execDotGeneralFastPath leaves the lhs and rhs flat buffers
\* as they were, and when it returns false the output buffer as well.
C6_InputsUntouchedOutputAllOrNothing ==
    [][ /\ lhs' = lhs
        /\ rhs' = rhs
        /\ (ret' = "false" => output' = output) ]_vars

\* C6 witness: a call on float32 operands of a non-canonical layout has
\* returned false, with a non-empty output buffer at hand.
C6_Witness ==
    /\ ret = "false" /\ lhs.shape.DType = Float32
    /\ Len(output.flat) > 0 /\ Len(lhs.flat) > 0 /\ Len(rhs.flat) > 0

(***************************************************************************)
(* Properties of the capability detectors.                                 *)
(***************************************************************************)
AllReturned == UNION { Range(returned[t]) : t \in Callers }

\* C7: under any interleaving of concurrent callers of detectSME the
\* detection body runs at most once, and exactly once before any caller
\* returns; no caller returns before that run has completed; every call
\* returns the same value, the one the run detected; and smeDetected is not
\* stored to after the first run has completed.
C7_DetectionRunsOnce ==
    /\ [](/\ bodyRuns <= 1
          /\ smeWrites <= 1
          /\ \A t \in Callers :
                (pc[t] = "return" \/ returned[t] # <<>>) => (bodyRuns = 1 /\ bodyEnds = 1)
          /\ Cardinality(AllReturned) <= 1
          /\ AllReturned \subseteq {smeDetectionBody(sysctl["hw.optional.arm.FEAT_SME"])})
    /\ [][bodyEnds >= 1 => (smeDetected' = smeDetected /\ smeWrites' = smeWrites)]_vars

\* C7 witness: one caller has returned true from the single run while a
\* second first-caller, which had found done clear, holds the lock and is
\* about to find the run already made; a third has made a later call.
C7_Witness ==
    /\ bodyRuns = 1
    /\ \E t, u \in Callers :
          /\ t # u
          /\ returned[t] = <<TRUE, TRUE>>
          /\ pc[u] = "slowCheck" /\ onceDone /\ onceMutex = u

\* C8: detectBF16NEON returns false on every platform and for every answer
\* of the capability query, darwin/arm64 with FEAT_BF16 reported included.
C8_BF16AlwaysFalse ==
    flags.bf16 # "true"

\* C9: on a platform where the detector issues no capability query (not
\* arm64, arm64 on an OS other than darwin, a noasm build for SME) the
\* flags are false, and a flag is true only if a query was made.
C9_NoQueryNoFlag ==
    /\ (goarch # "arm64" \/ goos # "darwin") =>
          (flags.fp16 # "true" /\ flags.bf16 # "true" /\ flags.hasSME # "true")
    /\ noasm => flags.hasSME # "true"
    /\ \A f \in {"hasSME", "fp16", "bf16"} : flags[f] = "true" => queried[f] # {}

\* The three answers detectFP16NEON asked for were all errors.
FP16QueriesAllFailed ==
    /\ sysctl["hw.optional.arm.FEAT_FHM"].err
    /\ sysctl["hw.optional.neon_fp16"].err
    /\ sysctl["machdep.cpu.brand_string"].err

SMEAnswerNotOne ==
    LET a == sysctl["hw.optional.arm.FEAT_SME"]
    IN  a.err \/ a.val = <<>> \/ a.val[1] # 1

\* C10: a failing query means capability absent: detectSME yields false
\* when the sysctl call errs, returns an empty value or a first byte other
\* than 1, and detectFP16NEON on darwin yields false when all its queries err.
C10_FailedQueryMeansAbsent ==
    /\ (queried.hasSME # {} /\ SMEAnswerNotOne) => flags.hasSME = "false"
    /\ (flags.fp16 # "unset" /\ goos = "darwin" /\ FP16QueriesAllFailed) =>
          flags.fp16 = "false"

\* C10 witness: on darwin/arm64 the SME query answered with first byte 2,
\* every FP16 query erred, and both flags were evaluated to false.
C10_Witness ==
    /\ goos = "darwin" /\ goarch = "arm64" /\ ~noasm
    /\ sysctl["hw.optional.arm.FEAT_SME"] = SysctlOk(<<2>>)
    /\ FP16QueriesAllFailed
    /\ queried.hasSME # {} /\ queried.fp16 # {}
    /\ flags.hasSME = "false" /\ flags.fp16 = "false"


\* ==========================================================================
\* dotProduct_sme_asm: one dot product in SME streaming mode
\* (dotgeneral_sme_arm64.s), entered through the wrapper dotProduct_sme.
\* ==========================================================================

MaxLen == 9      \* largest element count n passed
MaxNeg == 2      \* most negative n passed is -MaxNeg
MaxVL == 4       \* largest streaming vector length, in 32-bit words
MaxExtra == 2    \* elements of the backing arrays mapped beyond max(n, 0)

\* The general registers are 64 bits wide and UDIV / CBZ / SUBS read them as
\* unsigned words.  The model keeps the two's-complement wrap at a reduced
\* width: a negative n is a word far larger than any mapped buffer.
RegModulus == 65536

ToReg(x) == x % RegModulus

\* The float32 values are small integers, on which float32 arithmetic is exact.
MkVec(seed, salt, len) == [i \in 1..len |-> Gen(seed, salt, i - 1)]

Zeros(k) == [i \in 1..k |-> 0]

RECURSIVE SumSeq(_)
SumSeq(q) == IF q = <<>> THEN 0 ELSE q[1] + SumSeq(Tail(q))

\* UDIV R3, R9, R9: vec_count = n / vl, unsigned.
vecCount(r2, r3) == r2 \div r3

\* MUL R3, R9, R8 ; SUB R8, R2, R8: remainder = n - vec_count * vl.
remainderCount_lessVecCount(r2, r9, r3) == ToReg(r2 - r9)
remainderCount(r2, r9, r3) == ToReg(r2 - ToReg(r3 * r9))

\* CBZ R8, done: where the remainder check goes.
remainderTarget_skipsStore(r8) == IF r8 = 0 THEN "reload" ELSE "scalarloop"
remainderTarget(r8) == IF r8 = 0 THEN "done" ELSE "scalarloop"

\* A load of `count` words at element offset `off` of a mapped buffer: inside
\* the mapping it yields the words, outside it the access faults.
Mapped(buf, off, count) == off + count <= Len(buf)
LoadWords(buf, off, count) == [i \in 1..count |-> buf[off + i]]
ReadLog(off, count, loop) == [i \in 1..count |-> [idx |-> off + i - 1, loop |-> loop]]

SmeFrame == UNCHANGED <<dotVars, detectVars, onceVars, tileVars, cacheVars, batchVars, inner>>

InitSME ==
    /\ \E n \in (0 - MaxNeg)..MaxLen, vl \in 1..MaxVL, extra \in 0..MaxExtra, seed \in 0..MaxSeed :
         LET cap == (IF n > 0 THEN n ELSE 0) + extra IN
         smeArgs = [a |-> MkVec(seed, 1, cap), b |-> MkVec(seed, 3, cap), n |-> n, vl |-> vl]
    /\ smePc = "call"
    /\ smeReg = [R0 |-> 0, R1 |-> 0, R2 |-> 0, R3 |-> 0, R4 |-> 0, R8 |-> 0, R9 |-> 0,
                 s0 |-> 0, z2 |-> <<>>]
    /\ smeMode = FALSE
    /\ smeStack = 0
    /\ smeRet = 0
    /\ smeTrace = <<>>
    /\ smeReads = <<>>
    /\ DotAtRest
    /\ DetectAtRest
    /\ OnceAtRest
    /\ TileAtRest
    /\ CacheAtRest
    /\ BatchAtRest
    /\ InnerAtRest

\* dotProduct_sme: &aSlice[aIdx], &bSlice[bIdx] are bounds-checked by Go
\* (aIdx = bIdx = 0 here), then the assembly is entered.
dotProduct_sme ==
    /\ smePc = "call"
    /\ smePc' = IF Len(smeArgs.a) = 0 \/ Len(smeArgs.b) = 0 THEN "panic" ELSE "entry"
    /\ UNCHANGED <<smeArgs, smeReg, smeMode, smeStack, smeRet, smeTrace, smeReads>>
    /\ SmeFrame

\* MOVD a, R0 ; MOVD b, R1 ; MOVD n, R2 ; MOVW $0, 12(RSP) ; ADD $12, RSP, R10
Prologue ==
    /\ smePc = "entry"
    /\ smeReg' = [smeReg EXCEPT !.R0 = 0, !.R1 = 0, !.R2 = ToReg(smeArgs.n)]
    /\ smeStack' = 0
    /\ smePc' = "smstart"
    /\ UNCHANGED <<smeArgs, smeMode, smeRet, smeTrace, smeReads>>
    /\ SmeFrame

\* smstart: enter streaming mode; the vector registers come up zeroed.
Smstart ==
    /\ smePc = "smstart"
    /\ smeMode' = TRUE
    /\ smeReg' = [smeReg EXCEPT !.s0 = 0, !.z2 = <<>>]
    /\ smeTrace' = Append(smeTrace, "smstart")
    /\ smePc' = "setup"
    /\ UNCHANGED <<smeArgs, smeStack, smeRet, smeReads>>
    /\ SmeFrame

\* cntw x3 ; fmov s0, wzr ; mov z2.s, #0 ; ptrue p0.s
Setup ==
    /\ smePc = "setup"
    /\ smeReg' = [smeReg EXCEPT !.R3 = smeArgs.vl, !.s0 = 0, !.z2 = Zeros(smeArgs.vl)]
    /\ smePc' = "divide"
    /\ UNCHANGED <<smeArgs, smeMode, smeStack, smeRet, smeTrace, smeReads>>
    /\ SmeFrame

\* MOVD R2, R9 ; UDIV ; MUL ; SUB ; CBZ R9, remainder ; MOVD R9, R4
Divide ==
    /\ smePc = "divide"
    /\ LET r9 == vecCount(smeReg.R2, smeReg.R3)
           r8 == remainderCount(smeReg.R2, r9, smeReg.R3)
       IN /\ smeReg' = [smeReg EXCEPT !.R9 = r9, !.R8 = r8,
                                      !.R4 = IF r9 = 0 THEN smeReg.R4 ELSE r9]
          /\ smePc' = IF r9 = 0 THEN "remainder" ELSE "vectorloop"
    /\ UNCHANGED <<smeArgs, smeMode, smeStack, smeRet, smeTrace, smeReads>>
    /\ SmeFrame

\* vectorloop: ld1w z0 ; ld1w z1 ; fmla z2 ; advance both pointers by vl
\* words ; SUBS $1, R4 ; BNE vectorloop
VectorIter ==
    /\ smePc = "vectorloop"
    /\ LET vl == smeReg.R3
           ok == Mapped(smeArgs.a, smeReg.R0, vl) /\ Mapped(smeArgs.b, smeReg.R1, vl)
           z0 == LoadWords(smeArgs.a, smeReg.R0, vl)
           z1 == LoadWords(smeArgs.b, smeReg.R1, vl)
           r4 == ToReg(smeReg.R4 - 1)
       IN /\ smeReads' = smeReads \o ReadLog(smeReg.R0, vl, "vector")
          /\ IF ok
             THEN /\ smeReg' = [smeReg EXCEPT !.z2 = [i \in 1..vl |-> smeReg.z2[i] + z0[i] * z1[i]],
                                              !.R0 = smeReg.R0 + vl,
                                              !.R1 = smeReg.R1 + vl,
                                              !.R4 = r4]
                  /\ smePc' = IF r4 # 0 THEN "vectorloop" ELSE "reduce"
             ELSE /\ smeReg' = smeReg
                  /\ smePc' = "fault"
    /\ UNCHANGED <<smeArgs, smeMode, smeStack, smeRet, smeTrace>>
    /\ SmeFrame

\* reduce: faddv s0, p0, z2.s
Reduce ==
    /\ smePc = "reduce"
    /\ smeReg' = [smeReg EXCEPT !.s0 = SumSeq(smeReg.z2)]
    /\ smePc' = "remainder"
    /\ UNCHANGED <<smeArgs, smeMode, smeStack, smeRet, smeTrace, smeReads>>
    /\ SmeFrame

\* remainder: CBZ R8, done ; MOVD R8, R4
Remainder ==
    /\ smePc = "remainder"
    /\ smePc' = remainderTarget(smeReg.R8)
    /\ smeReg' = [smeReg EXCEPT !.R4 = IF smeReg.R8 = 0 THEN smeReg.R4 ELSE smeReg.R8]
    /\ UNCHANGED <<smeArgs, smeMode, smeStack, smeRet, smeTrace, smeReads>>
    /\ SmeFrame

\* scalarloop: ldr s3, [x0], #4 ; ldr s4, [x1], #4 ; fmul ; fadd s0 ;
\* SUBS $1, R4 ; BNE scalarloop
ScalarIter ==
    /\ smePc = "scalarloop"
    /\ LET ok == Mapped(smeArgs.a, smeReg.R0, 1) /\ Mapped(smeArgs.b, smeReg.R1, 1)
           r4 == ToReg(smeReg.R4 - 1)
       IN /\ smeReads' = smeReads \o ReadLog(smeReg.R0, 1, "scalar")
          /\ IF ok
             THEN /\ smeReg' = [smeReg EXCEPT !.s0 = smeReg.s0 + smeArgs.a[smeReg.R0 + 1]
                                                               * smeArgs.b[smeReg.R1 + 1],
                                              !.R0 = smeReg.R0 + 1,
                                              !.R1 = smeReg.R1 + 1,
                                              !.R4 = r4]
                  /\ smePc' = IF r4 # 0 THEN "scalarloop" ELSE "done"
             ELSE /\ smeReg' = smeReg
                  /\ smePc' = "fault"
    /\ UNCHANGED <<smeArgs, smeMode, smeStack, smeRet, smeTrace>>
    /\ SmeFrame

\* done: str s0, [x10]
StoreResult ==
    /\ smePc = "done"
    /\ smeStack' = smeReg.s0
    /\ smeTrace' = Append(smeTrace, "str")
    /\ smePc' = "smstop"
    /\ UNCHANGED <<smeArgs, smeReg, smeMode, smeRet, smeReads>>
    /\ SmeFrame

\* smstop: leave streaming mode; the vector registers are zeroed again.
Smstop ==
    /\ smePc = "smstop"
    /\ smeMode' = FALSE
    /\ smeReg' = [smeReg EXCEPT !.s0 = 0, !.z2 = <<>>]
    /\ smeTrace' = Append(smeTrace, "smstop")
    /\ smePc' = "reload"
    /\ UNCHANGED <<smeArgs, smeStack, smeRet, smeReads>>
    /\ SmeFrame

\* ldr s0, [sp, #0xc] ; FMOVS F0, ret+24(FP)
Reload ==
    /\ smePc = "reload"
    /\ smeReg' = [smeReg EXCEPT !.s0 = smeStack]
    /\ smeRet' = smeStack
    /\ smeTrace' = Append(smeTrace, "ldr")
    /\ smePc' = "ret"
    /\ UNCHANGED <<smeArgs, smeMode, smeStack, smeReads>>
    /\ SmeFrame

\* RET
Ret ==
    /\ smePc = "ret"
    /\ smeTrace' = Append(smeTrace, "ret")
    /\ smePc' = "returned"
    /\ UNCHANGED <<smeArgs, smeReg, smeMode, smeStack, smeRet, smeReads>>
    /\ SmeFrame

NextSME ==
    \/ dotProduct_sme
    \/ Prologue
    \/ Smstart
    \/ Setup
    \/ Divide
    \/ VectorIter
    \/ Reduce
    \/ Remainder
    \/ ScalarIter
    \/ StoreResult
    \/ Smstop
    \/ Reload
    \/ Ret

SpecSME == InitSME /\ [][NextSME]_vars

\* --------------------------------------------------------------------------
\* Claims about dotProduct_sme_asm
\* --------------------------------------------------------------------------

SmeRunning == smePc \notin {"rest", "call", "panic", "fault", "returned"}

Count(q, e) == Cardinality({i \in 1..Len(q) : q[i] = e})

IsPrefix(p, q) == Len(p) <= Len(q) /\ \A i \in 1..Len(p) : p[i] = q[i]

BracketOrder == <<"smstart", "str", "smstop", "ldr", "ret">>

ScalarSum(a, b, n) == SumSeq([i \in 1..n |-> a[i] * b[i]])

\* C11: for every n >= 0 and every vector length an execution of
\* dotProduct_sme_asm enters streaming mode once, stores the scalar result to
\* the stack slot, leaves streaming mode once, reloads the result and only then
\* returns; it never stops (faults) in between, streaming mode is active
\* exactly between smstart and smstop, and the value returned is the value the
\* loops had accumulated before smstop.
C11_StreamingModeBracketed ==
    smeArgs.n >= 0 =>
        /\ IsPrefix(smeTrace, BracketOrder)
        /\ smeMode = (Count(smeTrace, "smstart") = 1 /\ Count(smeTrace, "smstop") = 0)
        /\ smePc # "fault"
        /\ SmeRunning => ENABLED NextSME
        /\ smePc = "returned" =>
             /\ smeTrace = BracketOrder
             /\ ~smeMode
             /\ smeRet = ScalarSum(smeArgs.a, smeArgs.b, smeArgs.n)

\* Both loops skipped (n = 0) and the call has returned.
C11_Witness ==
    /\ smePc = "returned"
    /\ smeArgs.n = 0
    /\ smeReads = <<>>
    /\ smeTrace = BracketOrder

\* C12: for every n, negative n included, dotProduct_sme_asm terminates
\* without a fault, loads only elements 0..n-1 (none when n <= 0) and returns
\* 0 when n <= 0.
C12_AnyLengthHandled ==
    /\ smePc # "fault"
    /\ \A i \in 1..Len(smeReads) : smeReads[i].idx \in 0..(smeArgs.n - 1)
    /\ (smePc = "returned" /\ smeArgs.n <= 0) => smeRet = 0

ReadsOf(loop) == {i \in 1..Len(smeReads) : smeReads[i].loop = loop}

\* C20: for every n >= 0 and vl >= 1 a returned execution has loaded each
\* index 0..n-1 exactly once, in ascending order: the first floor(n / vl) * vl
\* in the vector loop, the last n mod vl in the scalar loop; and the value
\* returned is the plain scalar sum of a[i] * b[i].
C20_EachIndexOnce ==
    (smePc = "returned" /\ smeArgs.n >= 0) =>
        LET n == smeArgs.n
            vl == smeArgs.vl
            nv == (n \div vl) * vl
        IN /\ Len(smeReads) = n
           /\ \A i \in 1..Len(smeReads) : smeReads[i].idx = i - 1
           /\ ReadsOf("vector") = 1..nv
           /\ ReadsOf("scalar") = (nv + 1)..n
           /\ Cardinality(ReadsOf("scalar")) = n % vl
           /\ smeRet = ScalarSum(smeArgs.a, smeArgs.b, n)

\* A length above the vector length that is not a multiple of it, on data
\* whose dot product is not zero.
C20_Witness ==
    /\ smePc = "returned"
    /\ smeArgs.n > smeArgs.vl
    /\ smeArgs.vl > 1
    /\ smeArgs.n % smeArgs.vl # 0
    /\ ReadsOf("vector") # {}
    /\ ReadsOf("scalar") # {}
    /\ smeRet # 0


\* ==========================================================================
\* The block-tiled kernel: buildDotGeneralKernel(lhs, rhs, output, blockDim,
\* blockSize) returns kernel(batchIndex, rowBlockIndex, columnBlockIndex),
\* which computes one output tile; several invocations run concurrently.
\* ==========================================================================

TileBlocks == 2   \* row blocks and column blocks of the output
TileGroups == 1   \* groups of four columns in a tile row

\* The grouped primitive returns four sums per call (sum0 .. sum3).
GroupWidth == 4

\* blockDim: a tile is TileDim x TileDim.
TileDim == GroupWidth * TileGroups

\* The triples a kernel can be invoked on, for nb batches of nr x nc tiles.
Triples(nb, nr, nc) == (0..(nb - 1)) \X (0..(nr - 1)) \X (0..(nc - 1))

\* Blocks are laid out one after the other, blockSize = dim * dim elements
\* each: lhs by (batch, row block), rhs by (batch, column block), output by
\* (batch, row block, column block).
lhsBlockIdx(in, t) == t[1] * in.nr + t[2]
rhsBlockIdx(in, t) == t[1] * in.nc + t[3]
outputBlockIdx_ignoresColumn(in, t) == (t[1] * in.nr + t[2]) * in.nc
outputBlockIdx(in, t) == (t[1] * in.nr + t[2]) * in.nc + t[3]

\* outputIdx .. outputIdx+3: the flat output indices of the four columns
\* from column c on in row r of tile t.
tileGroupIndices(in, t, r, c) ==
    [j \in 1..GroupWidth |-> outputBlockIdx(in, t) * in.dim * in.dim + r * in.dim + c + (j - 1)]

\* The dot product of lhs row r of the tile with rhs row c of the tile.
tileDot(in, t, r, c) ==
    LET lhsIdx == lhsBlockIdx(in, t) * in.dim * in.dim + r * in.dim
        rhsIdx == rhsBlockIdx(in, t) * in.dim * in.dim + c * in.dim
    IN SumSeq([k \in 1..in.dim |-> At(in.lhs, lhsIdx + k - 1) * At(in.rhs, rhsIdx + k - 1)])

Workers == 1..Len(tileJob)

TileFrame == UNCHANGED <<dotVars, detectVars, onceVars, smeVars, cacheVars, batchVars, inner>>

\* One invocation, or two concurrent ones on distinct triples (a race is
\* between two invocations); the two are interchangeable, so their triples
\* are listed in ascending block order.
InitTile ==
    /\ \E nb \in 1..MaxBatch :
         LET seed == MaxSeed
             nr == TileBlocks
             nc == TileBlocks
             bs == TileDim * TileDim
             in == [lhs |-> MkVec(seed, 1, nb * nr * bs), rhs |-> MkVec(seed, 2, nb * nc * bs),
                    out0 |-> MkVec(seed, 4, nb * nr * nc * bs),
                    nb |-> nb, nr |-> nr, nc |-> nc, dim |-> TileDim]
         IN /\ tileIn = in
            /\ tileOut = in.out0
            /\ \E w \in {1, 2} :
                 \E ts \in [1..w -> Triples(nb, nr, nc)] :
                    /\ \A i \in 1..(w - 1) :
                         (ts[i][1] * nr + ts[i][2]) * nc + ts[i][3]
                           < (ts[i + 1][1] * nr + ts[i + 1][2]) * nc + ts[i + 1][3]
                    /\ tileJob = [i \in 1..w |-> [tile |-> ts[i], row |-> 0, col |-> 0, phase |-> "load",
                                                  sums |-> <<>>, written |-> {}]]
    /\ DotAtRest
    /\ DetectAtRest
    /\ OnceAtRest
    /\ SmeAtRest
    /\ CacheAtRest
    /\ BatchAtRest
    /\ InnerAtRest

\* One call of the grouped primitive: the four sums start from the values
\* in the output at outputIdx .. outputIdx+3 and each receives the dot
\* product of the lhs row with one of four consecutive rhs rows.
KernelLoadGroup(w) ==
    /\ tileJob[w].phase = "load"
    /\ tileJob[w].row < tileIn.dim
    /\ LET j == tileJob[w]
           idx == tileGroupIndices(tileIn, j.tile, j.row, j.col)
       IN tileJob' = [tileJob EXCEPT
                        ![w].sums = [k \in 1..GroupWidth |->
                                       At(tileOut, idx[k]) + tileDot(tileIn, j.tile, j.row, j.col + k - 1)],
                        ![w].phase = "store"]
    /\ UNCHANGED <<tileIn, tileOut>>
    /\ TileFrame

\* The invocation stores the four sums back and moves on to the next group
\* of the row, or to the next row of the tile.
KernelStoreGroup(w) ==
    /\ tileJob[w].phase = "store"
    /\ LET j == tileJob[w]
           idx == tileGroupIndices(tileIn, j.tile, j.row, j.col)
           slot(i) == CHOOSE k \in 1..GroupWidth : idx[k] = i - 1
           rowDone == j.col + GroupWidth >= tileIn.dim
           row == IF rowDone THEN j.row + 1 ELSE j.row
       IN /\ tileOut' = [i \in 1..Len(tileOut) |->
                           IF \E k \in 1..GroupWidth : idx[k] = i - 1
                           THEN j.sums[slot(i)]
                           ELSE tileOut[i]]
          /\ tileJob' = [tileJob EXCEPT ![w].row = row,
                                        ![w].col = IF rowDone THEN 0 ELSE j.col + GroupWidth,
                                        ![w].phase = IF row < tileIn.dim THEN "load" ELSE "done",
                                        ![w].sums = <<>>,
                                        ![w].written = j.written \cup {idx[k] : k \in 1..GroupWidth}]
    /\ UNCHANGED tileIn
    /\ TileFrame

NextTile ==
    \/ \E w \in Workers : KernelLoadGroup(w)
    \/ \E w \in Workers : KernelStoreGroup(w)

SpecTile == InitTile /\ [][NextTile]_vars

\* --------------------------------------------------------------------------
\* Claim about the tile kernels
\* --------------------------------------------------------------------------

\* One whole invocation on triple t, run alone on output `out`.
KernelAlone(in, out, t) ==
    LET base == outputBlockIdx(in, t) * in.dim * in.dim
    IN [i \in 1..Len(out) |->
          IF i - 1 >= base /\ i - 1 < base + in.dim * in.dim
          THEN out[i] + tileDot(in, t, (i - 1 - base) \div in.dim, (i - 1 - base) % in.dim)
          ELSE out[i]]

RECURSIVE Sequentially(_, _, _)
Sequentially(in, out, order) ==
    IF order = <<>> THEN out
    ELSE Sequentially(in, KernelAlone(in, out, tileJob[Head(order)].tile), Tail(order))

Orders == {o \in [Workers -> Workers] : \A i, j \in Workers : i # j => o[i] # o[j]}

AllTilesDone == \A w \in Workers : tileJob[w].phase = "done"

\* C13: concurrent invocations on pairwise distinct triples write pairwise
\* disjoint sets of output indices, and once all have finished the output is
\* what running the same invocations one after the other gives, in every
\* order; lhs and rhs are never written.
C13_TilesRaceFree ==
    /\ [](/\ \A v, w \in Workers : v # w => tileJob[v].written \cap tileJob[w].written = {}
          /\ AllTilesDone => \A o \in Orders : tileOut = Sequentially(tileIn, tileIn.out0, o))
    /\ [][tileIn' = tileIn]_vars

\* Two invocations whose steps interleaved have both finished and changed the
\* output.
C13_Witness ==
    /\ Len(tileJob) >= 2
    /\ AllTilesDone
    /\ \A w \in Workers : tileJob[w].written # {}
    /\ tileJob[1].tile[1] = tileJob[2].tile[1]
    /\ tileJob[1].tile[2] = tileJob[2].tile[2]
    /\ tileOut # tileIn.out0


\* ==========================================================================
\* KVCache (seq2seq): per-layer key / value tensors of the decoder.
\* ==========================================================================

MaxLayers == 2    \* largest numLayers
MaxKVCalls == 4   \* calls made on one KVCache

NilSlots(n) == [i \in 1..n |-> NilTensor]

NewKVCache(numLayers) ==
    [nil |-> FALSE, NumLayers |-> numLayers,
     SelfAttentionKeys |-> NilSlots(numLayers), SelfAttentionValues |-> NilSlots(numLayers),
     CrossAttentionKeys |-> NilSlots(numLayers), CrossAttentionValues |-> NilSlots(numLayers),
     CurrentLength |-> 0]

\* kv.SelfAttentionKeys[layer] = keys ; kv.SelfAttentionValues[layer] = values
\* (layers are numbered from 0; the caller has checked the index is in range).
SetSelfAttention_keysOnly(kv, layer, keys, values) ==
    [kv EXCEPT !.SelfAttentionKeys[layer + 1] = keys]
SetSelfAttention(kv, layer, keys, values) ==
    [kv EXCEPT !.SelfAttentionKeys[layer + 1] = keys,
               !.SelfAttentionValues[layer + 1] = values]

SetCrossAttention(kv, layer, keys, values) ==
    [kv EXCEPT !.CrossAttentionKeys[layer + 1] = keys,
               !.CrossAttentionValues[layer + 1] = values]

GetSelfAttentionKV(kv) == <<kv.SelfAttentionKeys, kv.SelfAttentionValues>>

GetCrossAttentionKV(kv) == <<kv.CrossAttentionKeys, kv.CrossAttentionValues>>

\* The slots Finalize visits: index i of all four arrays, for every i in the
\* range of SelfAttentionKeys.
KVTensors(kv) ==
    {kv.SelfAttentionKeys[i] : i \in 1..Len(kv.SelfAttentionKeys)}
      \cup {kv.SelfAttentionValues[i] : i \in 1..Len(kv.SelfAttentionKeys)}
      \cup {kv.CrossAttentionKeys[i] : i \in 1..Len(kv.SelfAttentionKeys)}
      \cup {kv.CrossAttentionValues[i] : i \in 1..Len(kv.SelfAttentionKeys)}

\* Finalize: FinalizeAll on every tensor held, every slot set to nil.
Finalize(kv) ==
    [kv EXCEPT !.SelfAttentionKeys = NilSlots(Len(kv.SelfAttentionKeys)),
               !.SelfAttentionValues = [i \in 1..Len(kv.SelfAttentionValues) |->
                   IF i <= Len(kv.SelfAttentionKeys) THEN NilTensor ELSE kv.SelfAttentionValues[i]],
               !.CrossAttentionKeys = [i \in 1..Len(kv.CrossAttentionKeys) |->
                   IF i <= Len(kv.SelfAttentionKeys) THEN NilTensor ELSE kv.CrossAttentionKeys[i]],
               !.CrossAttentionValues = [i \in 1..Len(kv.CrossAttentionValues) |->
                   IF i <= Len(kv.SelfAttentionKeys) THEN NilTensor ELSE kv.CrossAttentionValues[i]]]

CacheFrame == UNCHANGED <<dotVars, detectVars, onceVars, smeVars, tileVars, batchVars, inner>>

InitKVCache ==
    /\ \E n \in 0..MaxLayers : cache = NewKVCache(n)
    /\ cacheOp = [NoCacheOp EXCEPT !.op = "NewKVCache"]
    /\ released = {}
    /\ DotAtRest
    /\ DetectAtRest
    /\ OnceAtRest
    /\ SmeAtRest
    /\ TileAtRest
    /\ BatchAtRest
    /\ InnerAtRest

\* kv.SetSelfAttention(layer, keys, values); an index outside the arrays
\* panics before anything is assigned.
CallSetSelfAttention ==
    \E layer \in (0 - 1)..cache.NumLayers :
        LET oob == layer < 0 \/ layer >= Len(cache.SelfAttentionKeys)
            n == cacheOp.n + 1
            keys == Tensor("caller", n, 1)     \* each call hands over tensors of its own
            values == Tensor("caller", n, 2)
        IN
        /\ cacheOp.n < MaxKVCalls
        /\ cache' = IF oob THEN cache ELSE SetSelfAttention(cache, layer, keys, values)
        /\ cacheOp' = [op |-> "SetSelfAttention", n |-> n, layer |-> layer, keys |-> keys,
                       values |-> values, panic |-> oob, ret |-> <<>>]
        /\ UNCHANGED released
        /\ CacheFrame

CallSetCrossAttention ==
    \E layer \in (0 - 1)..cache.NumLayers :
        LET oob == layer < 0 \/ layer >= Len(cache.CrossAttentionKeys)
            n == cacheOp.n + 1
            keys == Tensor("caller", n, 1)     \* each call hands over tensors of its own
            values == Tensor("caller", n, 2)
        IN
        /\ cacheOp.n < MaxKVCalls
        /\ cache' = IF oob THEN cache ELSE SetCrossAttention(cache, layer, keys, values)
        /\ cacheOp' = [op |-> "SetCrossAttention", n |-> n, layer |-> layer, keys |-> keys,
                       values |-> values, panic |-> oob, ret |-> <<>>]
        /\ UNCHANGED released
        /\ CacheFrame

CallGetSelfAttentionKV ==
    /\ cacheOp.n < MaxKVCalls
    /\ cacheOp' = [NoCacheOp EXCEPT !.op = "GetSelfAttentionKV", !.n = cacheOp.n + 1,
                                    !.ret = GetSelfAttentionKV(cache)]
    /\ UNCHANGED <<cache, released>>
    /\ CacheFrame

CallGetCrossAttentionKV ==
    /\ cacheOp.n < MaxKVCalls
    /\ cacheOp' = [NoCacheOp EXCEPT !.op = "GetCrossAttentionKV", !.n = cacheOp.n + 1,
                                    !.ret = GetCrossAttentionKV(cache)]
    /\ UNCHANGED <<cache, released>>
    /\ CacheFrame

CallFinalize ==
    /\ cacheOp.n < MaxKVCalls
    /\ cache' = Finalize(cache)
    /\ released' = released \cup (KVTensors(cache) \ {NilTensor})
    /\ cacheOp' = [NoCacheOp EXCEPT !.op = "Finalize", !.n = cacheOp.n + 1]
    /\ CacheFrame

NextKVCache ==
    \/ CallSetSelfAttention
    \/ CallSetCrossAttention
    \/ CallGetSelfAttentionKV
    \/ CallGetCrossAttentionKV
    \/ CallFinalize

SpecKVCache == InitKVCache /\ [][NextKVCache]_vars

\* --------------------------------------------------------------------------
\* Claim about the KVCache
\* --------------------------------------------------------------------------

KVArrays(kv) ==
    <<kv.SelfAttentionKeys, kv.SelfAttentionValues, kv.CrossAttentionKeys, kv.CrossAttentionValues>>

AllSlotsNil(kv) == \A a \in 1..4 : \A i \in 1..Len(KVArrays(kv)[a]) : KVArrays(kv)[a][i] = NilTensor

\* C19: NewKVCache(n) gives four arrays of n nil slots and CurrentLength 0;
\* every array keeps length n whatever is called; a Set* call in range
\* replaces exactly the key and the value slot of its layer and attention
\* kind, so that Get* returns per layer the last pair set; and after Finalize
\* every slot of the four arrays is nil.
C19_SlotDiscipline ==
    /\ [](/\ \A a \in 1..4 : Len(KVArrays(cache)[a]) = cache.NumLayers
          /\ cacheOp.op = "NewKVCache" => AllSlotsNil(cache) /\ cache.CurrentLength = 0
          /\ cacheOp.op = "Finalize" => AllSlotsNil(cache)
          /\ cacheOp.op = "GetSelfAttentionKV" =>
               cacheOp.ret = <<cache.SelfAttentionKeys, cache.SelfAttentionValues>>
          /\ cacheOp.op = "GetCrossAttentionKV" =>
               cacheOp.ret = <<cache.CrossAttentionKeys, cache.CrossAttentionValues>>)
    /\ [][/\ (cacheOp'.op = "SetSelfAttention" /\ ~cacheOp'.panic) =>
               /\ cache'.SelfAttentionKeys =
                     [cache.SelfAttentionKeys EXCEPT ![cacheOp'.layer + 1] = cacheOp'.keys]
               /\ cache'.SelfAttentionValues =
                     [cache.SelfAttentionValues EXCEPT ![cacheOp'.layer + 1] = cacheOp'.values]
               /\ cache'.CrossAttentionKeys = cache.CrossAttentionKeys
               /\ cache'.CrossAttentionValues = cache.CrossAttentionValues
          /\ (cacheOp'.op = "SetCrossAttention" /\ ~cacheOp'.panic) =>
               /\ cache'.CrossAttentionKeys =
                     [cache.CrossAttentionKeys EXCEPT ![cacheOp'.layer + 1] = cacheOp'.keys]
               /\ cache'.CrossAttentionValues =
                     [cache.CrossAttentionValues EXCEPT ![cacheOp'.layer + 1] = cacheOp'.values]
               /\ cache'.SelfAttentionKeys = cache.SelfAttentionKeys
               /\ cache'.SelfAttentionValues = cache.SelfAttentionValues
          /\ cacheOp'.op \in {"GetSelfAttentionKV", "GetCrossAttentionKV"} => cache' = cache
          /\ cacheOp'.panic => cache' = cache
         ]_vars

\* A Get after Set calls on a cache of two layers: layer 0 holds one pair,
\* layer 1 a different key and value, the cross-attention arrays are still nil.
C19_Witness ==
    /\ cacheOp.op = "GetSelfAttentionKV"
    /\ cache.NumLayers = 2
    /\ cacheOp.ret[1][1] # NilTensor
    /\ cacheOp.ret[2][2] # NilTensor
    /\ cacheOp.ret[1][2] # cacheOp.ret[2][2]
    /\ cacheOp.ret[1][1] # cacheOp.ret[1][2]
    /\ \A i \in 1..2 : cache.CrossAttentionKeys[i] = NilTensor


\* ==========================================================================
\* Batch (seq2seq): encoder, decoder-init, decoder steps, generation.
\* A submodel is "nil", "noexec" (Exec == nil) or "ok"; an executor answers
\* x = [err, n, call, tokens]: it failed, or returned n outputs, the first of
\* a decoder being logits that yield `tokens` (<<>> when they cannot be read).
\* ==========================================================================

MaxPos == 3       \* largest decoder position (currentPosition) reached
MaxGenLen == 2    \* largest config.MaxLength
MaxItems == 2     \* largest batch size

\* What a call hands back: the batch, the error ("nil" for none), the
\* executors it invoked, the tensors it finalized and the logits' tokens.
Res(b, err, called, rel, logits) ==
    [b |-> b, err |-> err, called |-> called, rel |-> rel, logits |-> logits]

\* A call that dereferences a nil pointer panics; what it assigned before
\* stays assigned, and the caller may recover and go on.
NilDeref == "panic: nil pointer dereference"

Outputs(src, x) == [i \in 1..x.n |-> Tensor(src, x.call, i)]

runEncoderGoMLX(b, m, x) ==
    IF m.EncoderModel = "noexec" THEN Res(b, "encoder executor not initialized", <<>>, {}, <<>>)
    ELSE IF x.err THEN Res(b, "encoder execution failed", <<"encoder">>, {}, <<>>)
    ELSE IF x.n = 0 THEN Res(b, "encoder returned no outputs", <<"encoder">>, {}, <<>>)
    ELSE Res([b EXCEPT !.EncoderHiddenStates = Outputs("encoder", x)[1],
                       !.EncoderOutputs = Outputs("encoder", x),
                       !.encoderRun = TRUE],
             "nil", <<"encoder">>, {}, <<>>)

RunEncoder_rerun(b, m, x) ==
    IF m.EncoderModel = "nil" THEN Res(b, "encoder model is not configured", <<>>, {}, <<>>)
    ELSE runEncoderGoMLX(b, m, x)
RunEncoder(b, m, x) ==
    IF b.encoderRun
    THEN Res(b, "encoder has already been run for this batch", <<>>, {}, <<>>)
    ELSE IF m.EncoderModel = "nil"
    THEN Res(b, "encoder model is not configured", <<>>, {}, <<>>)
    ELSE CASE m.backendType \in {"GO", "XLA"} -> runEncoderGoMLX(b, m, x)
           [] m.backendType = "ORT" -> Res(b, "ORT backend not implemented yet", <<>>, {}, <<>>)
           [] OTHER -> Res(b, "unknown backend type", <<>>, {}, <<>>)

\* (self_k, self_v) per layer, then (cross_k, cross_v) per layer when there
\* are enough outputs.
parseKVCacheFromOutputs(b, outputs) ==
    LET numLayers == b.kvCache.NumLayers
        crossStartIdx == numLayers * 2
    IN IF b.kvCache.nil THEN [b |-> b, err |-> "KV cache not initialized"]
       ELSE IF Len(outputs) < numLayers * 2 THEN [b |-> b, err |-> "expected at least 2n KV cache outputs"]
       ELSE [b |-> [b EXCEPT
                !.kvCache.SelfAttentionKeys = [i \in 1..numLayers |-> outputs[(i - 1) * 2 + 1]],
                !.kvCache.SelfAttentionValues = [i \in 1..numLayers |-> outputs[(i - 1) * 2 + 2]],
                !.kvCache.CrossAttentionKeys =
                    IF Len(outputs) >= crossStartIdx + numLayers * 2
                    THEN [i \in 1..numLayers |-> outputs[crossStartIdx + (i - 1) * 2 + 1]]
                    ELSE b.kvCache.CrossAttentionKeys,
                !.kvCache.CrossAttentionValues =
                    IF Len(outputs) >= crossStartIdx + numLayers * 2
                    THEN [i \in 1..numLayers |-> outputs[crossStartIdx + (i - 1) * 2 + 2]]
                    ELSE b.kvCache.CrossAttentionValues],
             err |-> "nil"]

runDecoderInitGoMLX(b, m, x) ==
    IF m.DecoderInitModel = "nil" THEN Res([b EXCEPT !.decoderInitd = TRUE], "nil", <<>>, {}, <<>>)
    ELSE IF m.DecoderInitModel = "noexec"
    THEN Res(b, "decoder-init executor not initialized", <<>>, {}, <<>>)
    ELSE IF m.Config.nil THEN Res(b, NilDeref, <<>>, {}, <<>>)     \* model.Config.DecoderStartTokenID
    ELSE
      LET b1 == [b EXCEPT !.decoderInputIDs = Tensor("start", x.call, 1)]
          outputs == Outputs("decoder_init", x)
          numLayers == IF m.Config.NumLayers = 0 THEN (x.n - 1) \div 2 ELSE m.Config.NumLayers
          b2 == [b1 EXCEPT !.kvCache = NewKVCache(numLayers)]
          parsed == parseKVCacheFromOutputs(b2, Tail(outputs))
      IN IF x.err THEN Res(b1, "decoder-init execution failed", <<"decoder_init">>, {}, <<>>)
         ELSE IF x.n < 1 THEN Res(b1, "decoder-init returned no outputs", <<"decoder_init">>, {}, <<>>)
         ELSE IF parsed.err # "nil"
         THEN Res(parsed.b, "failed to parse KV cache from decoder-init outputs",
                  <<"decoder_init">>, {}, <<>>)
         ELSE Res([parsed.b EXCEPT !.decoderInitd = TRUE,
                                   !.currentPosition = 1,
                                   !.generatedIDs = [i \in 1..b.batchSize |-> <<>>]],
                  "nil", <<"decoder_init">>, {}, <<>>)

RunDecoderInit(b, m, x) ==
    IF ~b.encoderRun THEN Res(b, "encoder must be run before decoder init", <<>>, {}, <<>>)
    ELSE IF b.decoderInitd
    THEN Res(b, "decoder init has already been run for this batch", <<>>, {}, <<>>)
    ELSE IF m.DecoderInitModel = "nil" THEN Res([b EXCEPT !.decoderInitd = TRUE], "nil", <<>>, {}, <<>>)
    ELSE CASE m.backendType \in {"GO", "XLA"} -> runDecoderInitGoMLX(b, m, x)
           [] m.backendType = "ORT" -> Res(b, "ORT backend not implemented yet", <<>>, {}, <<>>)
           [] OTHER -> Res(b, "unknown backend type", <<>>, {}, <<>>)

\* The new self-attention tensors replace the old ones, layer by layer while
\* there are outputs left; the old ones are finalized.
updateKVCacheFromOutputs(b, outputs) ==
    LET kv == b.kvCache
        upd == {i \in 1..kv.NumLayers : (i - 1) * 2 + 1 < Len(outputs)}
    IN IF kv.nil THEN [b |-> b, err |-> "KV cache not initialized", rel |-> {}]
       ELSE [b |-> [b EXCEPT
                !.kvCache.SelfAttentionKeys = [i \in 1..kv.NumLayers |->
                    IF i \in upd THEN outputs[(i - 1) * 2 + 1] ELSE kv.SelfAttentionKeys[i]],
                !.kvCache.SelfAttentionValues = [i \in 1..kv.NumLayers |->
                    IF i \in upd THEN outputs[(i - 1) * 2 + 2] ELSE kv.SelfAttentionValues[i]],
                !.kvCache.CurrentLength = b.currentPosition + 1],
             err |-> "nil",
             rel |-> ({kv.SelfAttentionKeys[i] : i \in upd} \cup {kv.SelfAttentionValues[i] : i \in upd})
                        \ {NilTensor}]

runDecoderStepGoMLX(b, m, x) ==
    LET decoder == IF m.DecoderModel = "nil" THEN m.DecoderInitModel ELSE m.DecoderModel
        name == IF m.DecoderModel = "nil" THEN "decoder_init" ELSE "decoder"
        outputs == Outputs(name, x)
        updated == updateKVCacheFromOutputs(b, Tail(outputs))
        b1 == IF x.n > 1 THEN updated.b ELSE b
        rel == IF x.n > 1 THEN updated.rel ELSE {}
    IN IF decoder # "ok" THEN Res(b, "decoder executor not initialized", <<>>, {}, <<>>)
       ELSE IF x.err THEN Res(b, "decoder step execution failed", <<name>>, {}, <<>>)
       ELSE IF x.n < 1 THEN Res(b, "decoder step returned no outputs", <<name>>, {}, <<>>)
       ELSE IF x.n > 1 /\ updated.err # "nil" THEN Res(b, "failed to update KV cache", <<name>>, {}, <<>>)
       ELSE Res([b1 EXCEPT !.currentPosition = b.currentPosition + 1], "nil", <<name>>, rel, x.tokens)

RunDecoderStep_unguarded(b, m, x) ==
    IF m.DecoderModel = "nil" /\ m.DecoderInitModel = "nil"
    THEN Res(b, "decoder model is not configured", <<>>, {}, <<>>)
    ELSE runDecoderStepGoMLX(b, m, x)
RunDecoderStep(b, m, x) ==
    IF ~b.encoderRun THEN Res(b, "encoder must be run before decoder step", <<>>, {}, <<>>)
    ELSE IF m.DecoderModel = "nil" /\ m.DecoderInitModel = "nil"
    THEN Res(b, "decoder model is not configured", <<>>, {}, <<>>)
    ELSE CASE m.backendType \in {"GO", "XLA"} -> runDecoderStepGoMLX(b, m, x)
           [] m.backendType = "ORT" -> Res(b, "ORT backend not implemented yet", <<>>, {}, <<>>)
           [] OTHER -> Res(b, "unknown backend type", <<>>, {}, <<>>)

Destroy(b) ==
    Res([b EXCEPT !.EncoderHiddenStates = NilTensor,
                  !.EncoderOutputs = <<>>,
                  !.kvCache = NilKVCache,
                  !.decoderInputIDs = NilTensor],
        "nil", <<>>,
        ({b.EncoderHiddenStates, b.decoderInputIDs}
           \cup {b.EncoderOutputs[i] : i \in 1..Len(b.EncoderOutputs)}
           \cup KVTensors(b.kvCache)) \ {NilTensor},
        <<>>)

DestroyDecoder_keepsFlag(b) ==
    Res([b EXCEPT !.kvCache = NilKVCache, !.decoderInputIDs = NilTensor,
                  !.generationDone = FALSE, !.generatedIDs = <<>>, !.currentPosition = 0],
        "nil", <<>>, {}, <<>>)
DestroyDecoder(b) ==
    Res([b EXCEPT !.kvCache = NilKVCache,
                  !.decoderInputIDs = NilTensor,
                  !.decoderInitd = FALSE,
                  !.generationDone = FALSE,
                  !.generatedIDs = <<>>,
                  !.currentPosition = 0],
        "nil", <<>>,
        ({b.decoderInputIDs} \cup KVTensors(b.kvCache)) \ {NilTensor},
        <<>>)


\* What the executors can answer.  call tells the tensors of successive
\* decoder steps apart: it is the decoder position the step produces.
Failed(call) == [err |-> TRUE, n |-> 0, call |-> call, tokens |-> <<>>]
Answered(call, n, tokens) == [err |-> FALSE, n |-> n, call |-> call, tokens |-> tokens]

EncoderAnswers(call) == {Failed(call)} \cup {Answered(call, n, <<>>) : n \in {0, 2}}

\* Logits alone, or with (self_k, self_v) / (self_k, self_v, cross_k, cross_v)
\* for one layer, or one tensor short of a pair.
DecoderInitAnswers(call) == {Failed(call)} \cup {Answered(call, n, <<>>) : n \in {0, 1, 2, 3, 5}}

\* Token 1 is the EOS token; <<>> stands for logits whose rank or dtype
\* extractLogitsData rejects.
DecoderAnswers(call, batchSize) ==
    {Failed(call), Answered(call, 0, <<>>)}
      \cup {Answered(call, n, t) : n \in {1, 3}, t \in [1..batchSize -> {0, 1}] \cup {<<>>}}

GenerationConfigs ==
    [MaxLength : (0 - 1)..MaxGenLen, MinLength : 0..1, EOSTokenID : {1},
     ForcedBOSTokenID : {0 - 1, 2}, ForcedEOSTokenID : {0 - 1, 1}]

\* GenerateGreedy(maxLength): only MaxLength and the token ids of the model
\* are set, so both forced tokens are 0.
GreedyConfig(m, maxLength) ==
    [MaxLength |-> maxLength, MinLength |-> 0, EOSTokenID |-> m.Config.EOSTokenID,
     ForcedBOSTokenID |-> 0, ForcedEOSTokenID |-> 0]

SubModels == {"nil", "noexec", "ok"}

BackendTypes == {"GO", "XLA", "ORT", "TPU"}

\* The configurations handed to WithConfig: nil, or the default one with a
\* number of layers.
ModelConfigs == {NilConfig} \cup {[DefaultModelConfig EXCEPT !.NumLayers = n] : n \in 0..1}

\* NewModel(backend): the GoMLX backend type, a new context, the default
\* configuration, no submodel.
NewModel(backend) ==
    [ZeroModel EXCEPT !.backend = backend, !.backendType = "GO", !.ctx = "ok",
                      !.Config = DefaultModelConfig]

Validate(m) ==
    IF m.backend = "nil" THEN "model backend is not set"
    ELSE IF m.ctx = "nil" THEN "model context is not set"
    ELSE IF m.Config.nil THEN "model config is not set"
    ELSE IF m.EncoderModel = "nil" THEN "encoder model is not set"
    ELSE IF m.DecoderModel = "nil" /\ m.DecoderInitModel = "nil"
    THEN "at least one of decoder or decoder-init model must be set"
    ELSE "nil"

\* A tensor handed to NewBatch, with its shape (<<>> for the nil tensor).
Shaped(tensor, shape) == [tensor |-> tensor, shape |-> shape]

\* nil, rank 1, rank 3, and [batch, seq_len] for the batch sizes up to items.
InputTensors(items) ==
    {Shaped(NilTensor, <<>>)}
      \cup {Shaped(Tensor("caller", 0, 1), shape) :
              shape \in {<<2>>, <<1, 2, 2>>} \cup {<<n, 2>> : n \in 1..items}}

\* m.NewBatch(inputIDs, attentionMask): the batch (ZeroBatch standing for the
\* nil *Batch of a refusal) and the error.
NewBatch(m, inputIDs, attentionMask) ==
    IF Validate(m) # "nil"
    THEN [batch |-> ZeroBatch, err |-> "model validation failed: " \o Validate(m)]
    ELSE IF inputIDs.tensor = NilTensor
    THEN [batch |-> ZeroBatch, err |-> "inputIDs cannot be nil"]
    ELSE IF Len(inputIDs.shape) # 2
    THEN [batch |-> ZeroBatch, err |-> "inputIDs must be 2D [batch, seq_len]"]
    ELSE [batch |-> [ZeroBatch EXCEPT !.model = "m",
                                      !.InputIDs = inputIDs.tensor,
                                      !.AttentionMask = attentionMask,
                                      !.batchSize = inputIDs.shape[1],
                                      !.encoderSeqLen = inputIDs.shape[2]],
          err |-> "nil"]

MaxSetups == 3       \* calls that configure the Model
MaxCacheEdits == 1   \* calls made on the batch's KV cache from outside
MaxStepPos == 2      \* largest decoder position a direct RunDecoderStep reaches

\* The state after NewModel(backend): no batch yet.
InitBatch ==
    /\ \E backend \in {"nil", "ok"} : mdl = NewModel(backend)
    /\ bat = ZeroBatch
    /\ gen = IdleGenerate
    /\ hist = [NoCall EXCEPT !.op = "NewModel"]
    /\ DotAtRest
    /\ DetectAtRest
    /\ OnceAtRest
    /\ SmeAtRest
    /\ TileAtRest
    /\ CacheAtRest
    /\ InnerAtRest

BatchFrame == UNCHANGED <<dotVars, detectVars, onceVars, smeVars, tileVars, cacheVars, inner>>

\* The effect on the batch of a call that hands back r.
Effect(r) ==
    /\ r.b.currentPosition <= MaxPos
    /\ bat' = r.b

\* The call returns r.err, having invoked the executors `called`; encoderOk
\* records a RunEncoder that succeeded, called directly or by Generate.
Returns(op, r, err, called) ==
    hist' = [hist EXCEPT !.op = op, !.err = err, !.called = called, !.rel = r.rel,
                         !.encoderOk = hist.encoderOk \/ (~bat.encoderRun /\ r.b.encoderRun)]

\* A call on the Model is made between two calls on the batch; it returns
\* err (a panic included).
CanConfigure == gen.pc = "idle" /\ hist.setups < MaxSetups

Configured(op, err) ==
    hist' = [hist EXCEPT !.op = op, !.err = err, !.called = <<>>, !.rel = {},
                         !.setups = hist.setups + 1]

CallWithBackendType ==
    /\ CanConfigure
    /\ \E bt \in BackendTypes : mdl' = [mdl EXCEPT !.backendType = bt]
    /\ Configured("WithBackendType", "nil")
    /\ UNCHANGED <<bat, gen>>
    /\ BatchFrame

CallWithContext ==
    /\ CanConfigure
    /\ \E ctx \in {"nil", "ok"} : mdl' = [mdl EXCEPT !.ctx = ctx]
    /\ Configured("WithContext", "nil")
    /\ UNCHANGED <<bat, gen>>
    /\ BatchFrame

CallWithConfig ==
    /\ CanConfigure
    /\ \E cfg \in ModelConfigs : mdl' = [mdl EXCEPT !.Config = cfg]
    /\ Configured("WithConfig", "nil")
    /\ UNCHANGED <<bat, gen>>
    /\ BatchFrame

\* m.EncoderModel = encoder ; m.EncoderModel.Name = "encoder": a nil encoder
\* is assigned before its Name is written.
CallSetEncoder ==
    /\ CanConfigure
    /\ \E encoder \in SubModels :
         /\ mdl' = [mdl EXCEPT !.EncoderModel = encoder]
         /\ Configured("SetEncoder", IF encoder = "nil" THEN NilDeref ELSE "nil")
    /\ UNCHANGED <<bat, gen>>
    /\ BatchFrame

CallSetDecoderInit ==
    /\ CanConfigure
    /\ \E decoderInit \in SubModels :
         /\ mdl' = [mdl EXCEPT !.DecoderInitModel = decoderInit]
         /\ Configured("SetDecoderInit", IF decoderInit = "nil" THEN NilDeref ELSE "nil")
    /\ UNCHANGED <<bat, gen>>
    /\ BatchFrame

CallSetDecoder ==
    /\ CanConfigure
    /\ \E decoder \in SubModels :
         /\ mdl' = [mdl EXCEPT !.DecoderModel = decoder]
         /\ Configured("SetDecoder", IF decoder = "nil" THEN NilDeref ELSE "nil")
    /\ UNCHANGED <<bat, gen>>
    /\ BatchFrame

\* CreateEncoderExec(model, graphFn): NewExecAny fails and the model is left
\* alone, or the encoder becomes a submodel with an executor.
CallCreateEncoderExec ==
    /\ CanConfigure
    /\ \E failed \in BOOLEAN :
         IF failed
         THEN mdl' = mdl /\ Configured("CreateEncoderExec", "failed to create encoder executor")
         ELSE mdl' = [mdl EXCEPT !.EncoderModel = "ok"] /\ Configured("CreateEncoderExec", "nil")
    /\ UNCHANGED <<bat, gen>>
    /\ BatchFrame

CallCreateDecoderInitExec ==
    /\ CanConfigure
    /\ \E failed \in BOOLEAN :
         IF failed
         THEN mdl' = mdl /\ Configured("CreateDecoderInitExec", "failed to create decoder-init executor")
         ELSE mdl' = [mdl EXCEPT !.DecoderInitModel = "ok"] /\ Configured("CreateDecoderInitExec", "nil")
    /\ UNCHANGED <<bat, gen>>
    /\ BatchFrame

CallCreateDecoderExec ==
    /\ CanConfigure
    /\ \E failed \in BOOLEAN :
         IF failed
         THEN mdl' = mdl /\ Configured("CreateDecoderExec", "failed to create decoder executor")
         ELSE mdl' = [mdl EXCEPT !.DecoderModel = "ok"] /\ Configured("CreateDecoderExec", "nil")
    /\ UNCHANGED <<bat, gen>>
    /\ BatchFrame

\* batch, err := m.NewBatch(inputIDs, attentionMask); a refusal leaves the
\* caller without a batch.
CallNewBatch ==
    /\ gen.pc = "idle"
    /\ bat.model = "nil"
    /\ \E inputIDs \in InputTensors(1) :
         LET r == NewBatch(mdl, inputIDs, Tensor("caller", 0, 2))
         IN /\ bat' = r.batch
            /\ hist' = [hist EXCEPT !.op = "NewBatch", !.err = r.err, !.called = <<>>, !.rel = {}]
    /\ UNCHANGED <<mdl, gen>>
    /\ BatchFrame

\* A call is made from outside on the KV cache of the batch; it returns err
\* (a panic included), having finalized the tensors rel.
CanEditCache == gen.pc = "idle" /\ bat.model # "nil" /\ hist.edits < MaxCacheEdits

EditedCache(op, err, rel) ==
    hist' = [hist EXCEPT !.op = op, !.err = err, !.called = <<>>, !.rel = rel,
                         !.edits = hist.edits + 1]

\* b.InitKVCache(numLayers): b.kvCache = NewKVCache(numLayers); the cache it
\* replaces is not finalized.
CallInitKVCache ==
    /\ CanEditCache
    /\ \E numLayers \in 0..MaxLayers : bat' = [bat EXCEPT !.kvCache = NewKVCache(numLayers)]
    /\ EditedCache("InitKVCache", "nil", {})
    /\ UNCHANGED <<mdl, gen>>
    /\ BatchFrame

\* b.GetKVCache().SetSelfAttention(layer, keys, values): a nil cache or a
\* layer outside the arrays panics before anything is assigned.
CallCacheSetSelfAttention ==
    /\ CanEditCache
    /\ \E layer \in 0..bat.kvCache.NumLayers :
         LET kv == bat.kvCache
             keys == Tensor("caller", hist.edits + 1, 1)
             values == Tensor("caller", hist.edits + 1, 2)
         IN IF kv.nil
            THEN bat' = bat /\ EditedCache("SetSelfAttention", NilDeref, {})
            ELSE IF layer >= Len(kv.SelfAttentionKeys)
            THEN bat' = bat /\ EditedCache("SetSelfAttention", "panic: index out of range", {})
            ELSE /\ bat' = [bat EXCEPT !.kvCache = SetSelfAttention(kv, layer, keys, values)]
                 /\ EditedCache("SetSelfAttention", "nil", {})
    /\ UNCHANGED <<mdl, gen>>
    /\ BatchFrame

CallCacheSetCrossAttention ==
    /\ CanEditCache
    /\ \E layer \in 0..bat.kvCache.NumLayers :
         LET kv == bat.kvCache
             keys == Tensor("caller", hist.edits + 1, 1)
             values == Tensor("caller", hist.edits + 1, 2)
         IN IF kv.nil
            THEN bat' = bat /\ EditedCache("SetCrossAttention", NilDeref, {})
            ELSE IF layer >= Len(kv.CrossAttentionKeys)
            THEN bat' = bat /\ EditedCache("SetCrossAttention", "panic: index out of range", {})
            ELSE /\ bat' = [bat EXCEPT !.kvCache = SetCrossAttention(kv, layer, keys, values)]
                 /\ EditedCache("SetCrossAttention", "nil", {})
    /\ UNCHANGED <<mdl, gen>>
    /\ BatchFrame

\* b.GetKVCache().Finalize()
CallCacheFinalize ==
    /\ CanEditCache
    /\ LET kv == bat.kvCache
       IN IF kv.nil
          THEN bat' = bat /\ EditedCache("Finalize", NilDeref, {})
          ELSE /\ bat' = [bat EXCEPT !.kvCache = Finalize(kv)]
               /\ EditedCache("Finalize", "nil", KVTensors(kv) \ {NilTensor})
    /\ UNCHANGED <<mdl, gen>>
    /\ BatchFrame

CallRunEncoder ==
    /\ gen.pc = "idle"
    /\ bat.model # "nil"
    /\ \E x \in EncoderAnswers(0) :
         LET r == RunEncoder(bat, mdl, x) IN Effect(r) /\ Returns("RunEncoder", r, r.err, r.called)
    /\ UNCHANGED <<mdl, gen>>
    /\ BatchFrame

CallRunDecoderInit ==
    /\ gen.pc = "idle"
    /\ bat.model # "nil"
    /\ \E x \in DecoderInitAnswers(0) :
         LET r == RunDecoderInit(bat, mdl, x) IN Effect(r) /\ Returns("RunDecoderInit", r, r.err, r.called)
    /\ UNCHANGED <<mdl, gen>>
    /\ BatchFrame

CallRunDecoderStep ==
    /\ gen.pc = "idle"
    /\ bat.model # "nil"
    /\ bat.currentPosition < MaxStepPos
    /\ \E x \in DecoderAnswers(bat.currentPosition + 1, bat.batchSize) :
         LET r == RunDecoderStep(bat, mdl, x) IN Effect(r) /\ Returns("RunDecoderStep", r, r.err, r.called)
    /\ UNCHANGED <<mdl, gen>>
    /\ BatchFrame

CallDestroy ==
    /\ gen.pc = "idle"
    /\ bat.model # "nil"
    /\ Effect(Destroy(bat))
    /\ Returns("Destroy", Destroy(bat), "nil", <<>>)
    /\ UNCHANGED <<mdl, gen>>
    /\ BatchFrame

CallDestroyDecoder ==
    /\ gen.pc = "idle"
    /\ bat.model # "nil"
    /\ Effect(DestroyDecoder(bat))
    /\ Returns("DestroyDecoder", DestroyDecoder(bat), "nil", <<>>)
    /\ UNCHANGED <<mdl, gen>>
    /\ BatchFrame

\* Generate, up to the generation loop: the encoder and the decoder init are
\* run if they have not been, the per-item state is set up (the slices are
\* made with capacity config.MaxLength) and the forced BOS token is appended.
GenerateBegin(configs) ==
    /\ gen.pc = "idle"
    /\ bat.model # "nil"
    /\ \E config \in configs,
          x1 \in IF bat.encoderRun THEN {Failed(0)} ELSE EncoderAnswers(0),
          x2 \in IF bat.decoderInitd THEN {Failed(0)} ELSE DecoderInitAnswers(0) :
         LET r1 == IF ~bat.encoderRun THEN RunEncoder(bat, mdl, x1)
                   ELSE Res(bat, "nil", <<>>, {}, <<>>)
             r2 == IF ~r1.b.decoderInitd THEN RunDecoderInit(r1.b, mdl, x2)
                   ELSE Res(r1.b, "nil", <<>>, {}, <<>>)
             items == 1..bat.batchSize
             idle == [IdleGenerate EXCEPT !.config = config]
         IN IF r1.err # "nil"
            THEN /\ Effect(r1)
                 /\ gen' = idle
                 /\ Returns("Generate", r1, "failed to run encoder", r1.called)
            ELSE IF r2.err = NilDeref
            THEN /\ Effect(r2)
                 /\ gen' = idle
                 /\ Returns("Generate", r2, NilDeref, r1.called \o r2.called)
            ELSE IF r2.err # "nil"
            THEN /\ Effect(r2)
                 /\ gen' = idle
                 /\ Returns("Generate", r2, "failed to initialize decoder", r1.called \o r2.called)
            ELSE IF config.MaxLength < 0
            THEN /\ Effect(r2)
                 /\ gen' = idle
                 /\ Returns("Generate", r2, "panic: makeslice: cap out of range", r1.called \o r2.called)
            ELSE IF mdl.Config.nil                     \* b.model.Config.DecoderStartTokenID
            THEN /\ Effect(r2)
                 /\ gen' = idle
                 /\ Returns("Generate", r2, NilDeref, r1.called \o r2.called)
            ELSE /\ Effect(r2)
                 /\ gen' = [pc |-> "loop", config |-> config, step |-> 0,
                            finished |-> [i \in items |-> FALSE], numFinished |-> 0,
                            currentIDs |-> [i \in items |-> mdl.Config.DecoderStartTokenID],
                            generatedIDs |-> [i \in items |->
                                IF config.ForcedBOSTokenID >= 0 THEN <<config.ForcedBOSTokenID>>
                                ELSE <<>>],
                            ret |-> <<>>]
                 /\ Returns("Generate", r2, "running", r1.called \o r2.called)
    /\ UNCHANGED mdl
    /\ BatchFrame

\* GenerateGreedy(1): reading the token ids of a nil Config panics before
\* Generate is called.
GenerateGreedyBegin ==
    IF mdl.Config.nil
    THEN /\ gen.pc = "idle"
         /\ bat.model # "nil"
         /\ hist' = [hist EXCEPT !.op = "GenerateGreedy", !.err = NilDeref, !.called = <<>>, !.rel = {}]
         /\ UNCHANGED <<mdl, bat, gen>>
         /\ BatchFrame
    ELSE GenerateBegin({GreedyConfig(mdl, 1)})

\* if finished[i] { continue } ; generatedIDs[i] = append(generatedIDs[i], token)
appendToken_toAll(finished, ids, token) == Append(ids, token)
appendToken(finished, ids, token) == IF finished THEN ids ELSE Append(ids, token)

\* if token == config.EOSTokenID && step >= config.MinLength
isEOS_anyStep(token, step, config) == token = config.EOSTokenID
isEOS(token, step, config) == token = config.EOSTokenID /\ step >= config.MinLength

\* One iteration of the generation loop.
GenerateStep ==
    /\ gen.pc = "loop"
    /\ gen.step < gen.config.MaxLength /\ gen.numFinished < bat.batchSize
    /\ \E x \in DecoderAnswers(bat.currentPosition + 1, bat.batchSize) :
         LET r == RunDecoderStep(bat, mdl, x)
             nextTokens == r.logits
             items == 1..bat.batchSize
             done(i) == isEOS(nextTokens[i], gen.step, gen.config)
         IN /\ Effect(r)
            /\ IF r.err # "nil"
               THEN /\ gen' = [IdleGenerate EXCEPT !.config = gen.config]
                    /\ Returns("Generate", r, "decoder step failed", r.called)
               ELSE IF nextTokens = <<>>
               THEN /\ gen' = [IdleGenerate EXCEPT !.config = gen.config]
                    /\ Returns("Generate", r, "failed to get next tokens", r.called)
               ELSE /\ gen' = [gen EXCEPT
                        !.generatedIDs = [i \in items |->
                            appendToken(gen.finished[i], gen.generatedIDs[i], nextTokens[i])],
                        !.currentIDs = [i \in items |->
                            IF gen.finished[i] THEN gen.currentIDs[i] ELSE nextTokens[i]],
                        !.finished = [i \in items |-> gen.finished[i] \/ done(i)],
                        !.numFinished = gen.numFinished
                            + Cardinality({i \in items : ~gen.finished[i] /\ done(i)}),
                        !.step = gen.step + 1]
                    /\ Returns("Generate", r, "running", r.called)
    /\ UNCHANGED mdl
    /\ BatchFrame

\* After the loop: the forced EOS token, the results stored and returned.
GenerateEnd ==
    /\ gen.pc = "loop"
    /\ ~(gen.step < gen.config.MaxLength /\ gen.numFinished < bat.batchSize)
    /\ LET generatedIDs == [i \in 1..bat.batchSize |->
              IF gen.config.ForcedEOSTokenID >= 0 /\ ~gen.finished[i]
              THEN Append(gen.generatedIDs[i], gen.config.ForcedEOSTokenID)
              ELSE gen.generatedIDs[i]]
       IN /\ bat' = [bat EXCEPT !.generatedIDs = generatedIDs, !.generationDone = TRUE]
          /\ gen' = [IdleGenerate EXCEPT !.config = gen.config, !.ret = generatedIDs]
    /\ Returns("Generate", Res(bat, "nil", <<>>, {}, <<>>), "nil", <<>>)
    /\ UNCHANGED mdl
    /\ BatchFrame

NextBatch ==
    \/ CallWithBackendType
    \/ CallWithContext
    \/ CallWithConfig
    \/ CallSetEncoder
    \/ CallSetDecoderInit
    \/ CallSetDecoder
    \/ CallCreateEncoderExec
    \/ CallCreateDecoderInitExec
    \/ CallCreateDecoderExec
    \/ CallNewBatch
    \/ CallInitKVCache
    \/ CallCacheSetSelfAttention
    \/ CallCacheSetCrossAttention
    \/ CallCacheFinalize
    \/ CallRunEncoder
    \/ CallRunDecoderInit
    \/ CallRunDecoderStep
    \/ CallDestroy
    \/ CallDestroyDecoder
    \/ GenerateGreedyBegin
    \/ GenerateStep
    \/ GenerateEnd

SpecBatch == InitBatch /\ [][NextBatch]_vars


\* --------------------------------------------------------------------------
\* Claims about the Batch
\* --------------------------------------------------------------------------

RunEncoderErrors ==
    {"encoder model is not configured", "ORT backend not implemented yet", "unknown backend type",
     "encoder executor not initialized", "encoder execution failed", "encoder returned no outputs"}

EncoderUnset(b) == ~b.encoderRun /\ b.EncoderHiddenStates = NilTensor /\ b.EncoderOutputs = <<>>

\* C14: once the encoder has run, RunEncoder returns "encoder has already
\* been run for this batch", invokes no executor and changes no field of the
\* batch, and no call invokes the encoder executor again; a RunEncoder that
\* fails before that (for one of the six reasons) leaves encoderRun false and
\* the encoder outputs unset; one that succeeds sets all three.
C14_EncoderRunsAtMostOnce ==
    /\ [](~bat.encoderRun => EncoderUnset(bat))
    /\ [][/\ bat.encoderRun => (bat'.encoderRun /\ \A i \in 1..Len(hist'.called) : hist'.called[i] # "encoder")
          /\ hist'.op = "RunEncoder" =>
               /\ bat.encoderRun =>
                    /\ hist'.err = "encoder has already been run for this batch"
                    /\ hist'.called = <<>>
                    /\ bat' = bat
               /\ (~bat.encoderRun /\ hist'.err # "nil") =>
                    /\ hist'.err \in RunEncoderErrors
                    /\ bat' = bat
                    /\ EncoderUnset(bat')
               /\ hist'.err = "nil" =>
                    /\ ~bat.encoderRun /\ bat'.encoderRun
                    /\ hist'.called = <<"encoder">>
                    /\ bat'.EncoderOutputs # <<>>
                    /\ bat'.EncoderHiddenStates = bat'.EncoderOutputs[1]
         ]_vars

\* A second RunEncoder has been refused on a batch that holds encoder outputs.
C14_Witness ==
    /\ hist.op = "RunEncoder"
    /\ hist.err = "encoder has already been run for this batch"
    /\ bat.encoderRun
    /\ bat.EncoderHiddenStates # NilTensor

DecoderExecutors == {"decoder_init", "decoder"}

\* C15: a fresh batch has EncoderRun() and DecoderInitialized() false;
\* RunDecoderInit and RunDecoderStep fail and invoke no executor unless a
\* RunEncoder has succeeded on the batch before; no call at all invokes a
\* decoder executor before that; and DecoderInitialized() is true only in
\* states where EncoderRun() is true.
C15_NoDecoderBeforeEncoder ==
    /\ [](/\ (hist.op = "NewBatch" /\ hist.err = "nil") =>
               (bat.model = "m" /\ ~bat.encoderRun /\ ~bat.decoderInitd)
          /\ bat.decoderInitd => bat.encoderRun
          /\ bat.encoderRun => hist.encoderOk)
    /\ [][/\ (hist'.op \in {"RunDecoderInit", "RunDecoderStep"} /\ ~hist.encoderOk) =>
               /\ hist'.err \in {"encoder must be run before decoder init",
                                 "encoder must be run before decoder step"}
               /\ hist'.called = <<>>
               /\ bat' = bat
          /\ (\E i \in 1..Len(hist'.called) : hist'.called[i] \in DecoderExecutors) =>
               /\ hist'.encoderOk
               /\ hist.encoderOk \/ hist'.called[1] = "encoder"
         ]_vars

\* Both decoder calls have been refused before any encoder run: this is the
\* refusal of the decoder step on a batch whose encoder never succeeded.
C15_Witness ==
    /\ hist.op = "RunDecoderStep"
    /\ hist.err = "encoder must be run before decoder step"
    /\ ~hist.encoderOk
    /\ mdl.DecoderModel = "ok"
    /\ mdl.backendType = "GO"

InitRefusals ==
    {"encoder must be run before decoder init", "decoder init has already been run for this batch"}

\* C16: DestroyDecoder leaves kvCache and decoderInputIDs nil, decoderInitd
\* and generationDone false, generatedIDs nil and currentPosition 0, and does
\* not touch encoderRun, the encoder outputs or the inputs; so on a batch
\* whose encoder has run RunDecoderInit, refused as already run while
\* decoderInitd was set, is no longer refused.
C16_DestroyDecoderKeepsEncoder ==
    [][hist'.op = "DestroyDecoder" =>
         /\ bat'.kvCache = NilKVCache
         /\ bat'.decoderInputIDs = NilTensor
         /\ ~bat'.decoderInitd
         /\ ~bat'.generationDone
         /\ bat'.generatedIDs = <<>>
         /\ bat'.currentPosition = 0
         /\ bat'.encoderRun = bat.encoderRun
         /\ bat'.EncoderHiddenStates = bat.EncoderHiddenStates
         /\ bat'.EncoderOutputs = bat.EncoderOutputs
         /\ bat'.InputIDs = bat.InputIDs
         /\ bat'.AttentionMask = bat.AttentionMask
         /\ bat'.batchSize = bat.batchSize
         /\ hist'.called = <<>>
         /\ \A x \in DecoderInitAnswers(0) :
              /\ bat.decoderInitd =>
                   RunDecoderInit(bat, mdl, x).err = "decoder init has already been run for this batch"
              /\ bat.encoderRun => RunDecoderInit(bat', mdl, x).err \notin InitRefusals
    ]_vars

\* DestroyDecoder has just released the tensors of an initialized decoder on
\* a batch that still holds its encoder outputs.
C16_Witness ==
    /\ hist.op = "DestroyDecoder"
    /\ hist.rel # {}
    /\ bat.encoderRun
    /\ bat.EncoderHiddenStates # NilTensor
    /\ bat.kvCache = NilKVCache


\* --------------------------------------------------------------------------
\* Generate on a complete GoMLX model, with every GenerationConfig, on
\* batches of 1..MaxItems items; DestroyDecoder allows generating again.
\* --------------------------------------------------------------------------

InitGenerate ==
    /\ mdl = [NewModel("ok") EXCEPT !.EncoderModel = "ok",
                                    !.DecoderInitModel = "ok",
                                    !.DecoderModel = "ok",
                                    !.Config.NumLayers = 1]
    /\ \E inputIDs \in InputTensors(MaxItems) :
         LET r == NewBatch(mdl, inputIDs, Tensor("caller", 0, 2))
         IN r.err = "nil" /\ bat = r.batch
    /\ gen = IdleGenerate
    /\ hist = [NoCall EXCEPT !.op = "NewBatch"]
    /\ DotAtRest
    /\ DetectAtRest
    /\ OnceAtRest
    /\ SmeAtRest
    /\ TileAtRest
    /\ CacheAtRest
    /\ InnerAtRest

NextGenerate ==
    \/ GenerateBegin(GenerationConfigs)
    \/ GenerateStep
    \/ GenerateEnd
    \/ CallDestroyDecoder

SpecGenerate == InitGenerate /\ [][NextGenerate]_vars


\* --------------------------------------------------------------------------
\* Claims about Generate
\* --------------------------------------------------------------------------

StepFailures == {"decoder step failed", "failed to get next tokens"}

LoopContinues == gen.step < gen.config.MaxLength /\ gen.numFinished < bat.batchSize

\* The loop counts its decoder steps, never beyond MaxLength, runs the
\* decoder only while an item is unfinished, and leaves as soon as none is.
LoopBounded ==
    /\ [](gen.pc = "loop" => (gen.step <= gen.config.MaxLength /\ gen.numFinished <= bat.batchSize))
    /\ [][gen.pc = "loop" =>
            /\ gen'.pc = "idle" \/ (gen'.pc = "loop" /\ gen'.step = gen.step + 1)
            /\ hist'.called # <<>> => (LoopContinues /\ Len(hist'.called) = 1)
            /\ ~LoopContinues => (hist'.op = "Generate" /\ hist'.err = "nil" /\ hist'.called = <<>>)
         ]_vars

\* A failing decoder step or token extraction ends Generate at once with a
\* nil result.
FailureReturnsNil ==
    [][(hist'.op = "Generate" /\ hist'.err \in StepFailures) =>
         (gen.pc = "loop" /\ gen'.pc = "idle" /\ gen'.ret = <<>>)]_vars

FailureLeavesDoneFalse ==
    [][(hist'.op = "Generate" /\ hist'.err \in StepFailures) => ~bat'.generationDone]_vars

\* A successful return sets generationDone, and GetGeneratedIDs (the field
\* generatedIDs) holds the returned sequences.
SuccessStoresResult ==
    [][(hist'.op = "Generate" /\ hist'.err = "nil") =>
         /\ gen'.pc = "idle"
         /\ bat'.generationDone
         /\ Len(gen'.ret) = bat.batchSize
         /\ bat'.generatedIDs = gen'.ret]_vars

\* C17: Generate's loop performs at most config.MaxLength decoder steps and
\* stops as soon as every item is finished; the first failing decoder step or
\* token extraction ends it with an error and a nil result, leaving
\* generationDone false; a successful return sets generationDone and makes
\* GetGeneratedIDs return the returned sequences.
C17_GenerateTerminates ==
    /\ LoopBounded
    /\ FailureReturnsNil
    /\ FailureLeavesDoneFalse
    /\ SuccessStoresResult

\* C18: every sequence returned by Generate contains at most config.MaxLength
\* tokens, whatever ForcedBOSTokenID and ForcedEOSTokenID are and whether or
\* not the sequence produced EOS.
C18_MaxLengthBoundsOutput ==
    [][(hist'.op = "Generate" /\ hist'.err = "nil") =>
         \A i \in 1..Len(gen'.ret) : Len(gen'.ret[i]) <= gen.config.MaxLength]_vars


\* ==========================================================================
\* dotProductInnerLoopSME (dotgeneral_sme_arm64.go): four dot products, each
\* added to the value already in the output, each computed by one execution
\* of dotProduct_sme / dotProduct_sme_asm as modelled above.
\* ==========================================================================

MaxBlockDim == 3    \* largest blockDim passed (the smallest is -1)
MaxOffset == 1      \* largest lhsIdx, rhsIdx, outputIdx passed

\* rhsIdx, rhsIdx1, rhsIdx2, rhsIdx3: where the j-th rhs run starts.
rhsIdxOf_sameRun(rhsIdx, blockDim, j) == rhsIdx
rhsIdxOf(rhsIdx, blockDim, j) == rhsIdx + j * blockDim

\* unsafe.Pointer(&aSlice[aIdx]): the memory from element aIdx on.
From(slice, idx) == SubSeq(slice, idx + 1, Len(slice))

\* A caller's slices: lhs holds one run of blockDim elements from lhsIdx, rhs
\* four runs from rhsIdx, the output four elements from outputIdx (or only
\* three, which Go's bounds check rejects); vl is the streaming vector length.
InitInner ==
    /\ \E blockDim \in (0 - 1)..MaxBlockDim, vl \in {1, 2}, seed \in 0..MaxSeed,
          lhsIdx \in 0..MaxOffset, rhsIdx \in 0..MaxOffset, outputIdx \in 0..MaxOffset,
          outLen \in {3, 4} :
         LET run == IF blockDim > 0 THEN blockDim ELSE 0 IN
         inner = [pc |-> "entry",
                  lhsFlat |-> MkVec(seed, 1, lhsIdx + run),
                  rhsFlat |-> MkVec(seed, 3, rhsIdx + 4 * run),
                  outputFlat |-> MkVec(seed, 2, outputIdx + outLen),
                  lhsIdx |-> lhsIdx, rhsIdx |-> rhsIdx, outputIdx |-> outputIdx,
                  blockDim |-> blockDim, vl |-> vl,
                  sums |-> <<0, 0, 0, 0>>, j |-> 0, calls |-> 0]
    /\ SmeAtRest
    /\ DotAtRest
    /\ DetectAtRest
    /\ OnceAtRest
    /\ TileAtRest
    /\ CacheAtRest
    /\ BatchAtRest

InnerFrame == UNCHANGED <<dotVars, detectVars, onceVars, tileVars, cacheVars, batchVars>>

\* sum0..sum3 = outputFlat[outputIdx .. outputIdx+3], bounds-checked.
InnerLoadSums ==
    /\ inner.pc = "entry"
    /\ inner' = IF inner.outputIdx + 3 >= Len(inner.outputFlat)
                THEN [inner EXCEPT !.pc = "panic"]
                ELSE [inner EXCEPT !.pc = "sum",
                                   !.sums = [j \in 1..4 |-> inner.outputFlat[inner.outputIdx + j]]]
    /\ UNCHANGED smeVars
    /\ InnerFrame

\* if blockDim > 0 { sum_j += dotProduct_sme(lhsFlat, rhsFlat, lhsIdx, rhsIdx_j, int64(blockDim)) }:
\* the call is entered, or skipped.
InnerCall ==
    /\ inner.pc = "sum"
    /\ inner.j < 4
    /\ IF inner.blockDim > 0
       THEN /\ inner' = [inner EXCEPT !.pc = "asm", !.calls = inner.calls + 1]
            /\ smeArgs' = [a |-> From(inner.lhsFlat, inner.lhsIdx),
                           b |-> From(inner.rhsFlat, rhsIdxOf(inner.rhsIdx, inner.blockDim, inner.j)),
                           n |-> inner.blockDim, vl |-> inner.vl]
            /\ smePc' = "call"
            /\ smeTrace' = <<>>
            /\ smeReads' = <<>>
            /\ UNCHANGED <<smeReg, smeMode, smeStack, smeRet>>
       ELSE /\ inner' = [inner EXCEPT !.j = inner.j + 1]
            /\ UNCHANGED smeVars
    /\ InnerFrame

\* The call is over: its result is added to sum_j (a panic or fault in it
\* ends the inner loop as well).
InnerAccumulate ==
    /\ inner.pc = "asm"
    /\ smePc \in {"returned", "panic", "fault"}
    /\ inner' = IF smePc = "returned"
                THEN [inner EXCEPT !.pc = "sum", !.j = inner.j + 1,
                                   !.sums[inner.j + 1] = inner.sums[inner.j + 1] + smeRet]
                ELSE [inner EXCEPT !.pc = "panic"]
    /\ UNCHANGED smeVars
    /\ InnerFrame

\* return
InnerReturn ==
    /\ inner.pc = "sum"
    /\ inner.j = 4
    /\ inner' = [inner EXCEPT !.pc = "returned"]
    /\ UNCHANGED smeVars
    /\ InnerFrame

NextInner ==
    \/ InnerLoadSums
    \/ InnerCall
    \/ InnerAccumulate
    \/ InnerReturn
    \/ NextSME

SpecInner == InitInner /\ [][NextInner]_vars

\* dot(lhsFlat[lhsIdx .. lhsIdx+blockDim), rhsFlat[start .. start+blockDim))
RunDot(lhsFlat, lhsIdx, rhsFlat, start, blockDim) ==
    SumSeq([k \in 1..blockDim |-> lhsFlat[lhsIdx + k] * rhsFlat[start + k]])

\* C21: dotProductInnerLoopSME returns, for j in 0..3, the existing
\* outputFlat[outputIdx+j] plus the dot product of the lhs run at lhsIdx with
\* the j-th rhs run at rhsIdx + j*blockDim, each being the result of one
\* single call added to the partial sum; with blockDim <= 0 it returns the
\* four existing values and never calls the assembly; and it never writes
\* lhsFlat, rhsFlat or outputFlat.
C21_InnerLoopAccumulates ==
    /\ [](inner.pc = "returned" =>
            /\ \A j \in 0..3 :
                 inner.sums[j + 1] =
                    inner.outputFlat[inner.outputIdx + j + 1]
                      + RunDot(inner.lhsFlat, inner.lhsIdx, inner.rhsFlat,
                               inner.rhsIdx + j * inner.blockDim,
                               IF inner.blockDim > 0 THEN inner.blockDim ELSE 0)
            /\ inner.blockDim <= 0 =>
                 /\ inner.sums = [j \in 1..4 |-> inner.outputFlat[inner.outputIdx + j]]
                 /\ inner.calls = 0
                 /\ smePc = "rest"
            /\ inner.blockDim > 0 => inner.calls = 4)
    /\ [](inner.pc = "panic" => (inner.j = 0 /\ inner.outputIdx + 3 >= Len(inner.outputFlat)))
    /\ [][/\ inner'.lhsFlat = inner.lhsFlat
          /\ inner'.rhsFlat = inner.rhsFlat
          /\ inner'.outputFlat = inner.outputFlat
          /\ (inner.pc = "asm" /\ inner'.pc = "sum") =>
               inner'.sums = [inner.sums EXCEPT ![inner.j + 1] = @ + smeRet]
         ]_vars

\* A call with the largest blockDim on a two-word vector unit (a vector
\* iteration and a scalar remainder per dot product) has returned sums that
\* differ from the values found in the output.
C21_Witness ==
    /\ inner.pc = "returned"
    /\ inner.blockDim = MaxBlockDim
    /\ inner.vl = 2
    /\ inner.calls = 4
    /\ inner.outputIdx = MaxOffset
    /\ \E j \in 1..4 : inner.outputFlat[inner.outputIdx + j] # 0
    /\ \A j \in 1..4 : inner.sums[j] # inner.outputFlat[inner.outputIdx + j]


\* --------------------------------------------------------------------------
\* Which dotProductInnerLoopSME a build compiles, against its hasSME
\* --------------------------------------------------------------------------

\* The stub (dotgeneral_sme_stub.go) is the implementation compiled.
StubCompiled == Tag_sme_stub(goos, goarch, noasm)

\* The assembly-backed implementation (dotgeneral_sme_arm64.go) is.
AsmCompiled == Tag_sme_arm64(goos, goarch, noasm)

\* C22: every build compiles exactly one of the two implementations; where
\* it is the panicking stub, hasSME comes from the fallback file, is false
\* and no query was made for it; where hasSME is true, the assembly-backed
\* implementation is the one compiled.
C22_StubUnreachableUnderHasSME ==
    /\ StubCompiled <=> ~AsmCompiled
    /\ StubCompiled =>
         /\ Tag_sme_detect_fallback(goos, goarch, noasm)
         /\ flags.hasSME # "true"
         /\ queried.hasSME = {}
    /\ flags.hasSME = "true" => AsmCompiled

\* A noasm build on darwin/arm64, on a machine whose sysctl reports SME: the
\* stub is compiled and hasSME has been initialised to false.
C22_Witness ==
    /\ goos = "darwin" /\ goarch = "arm64" /\ noasm
    /\ StubCompiled
    /\ sysctl["hw.optional.arm.FEAT_SME"] = SysctlOk(<<1>>)
    /\ flags.hasSME = "false"


\* --------------------------------------------------------------------------
\* Which primitive the fast path uses for each output column
\* --------------------------------------------------------------------------

VectorTier == hasNEON /\ params.contractingSize >= 4

\* The columns left in the row when the loop stands at the first column of
\* the group of four that column n belongs to.
ColumnsLeftAt(n) == params.rhsCrossSize - 4 * (n \div 4)

\* The dot product of row m with column n of batch batchIdx as the scalar
\* loop computes it.
ScalarValue(w) ==
    scalarDot(lhs.flat, rhs.flat,
              w.batchIdx * lhsBatchStride(params) + w.m * params.contractingSize,
              w.batchIdx * rhsBatchStride(params) + w.n * params.contractingSize,
              params.contractingSize)

\* C23: in a successful call a column is produced by the grouped primitive
\* exactly when hasNEON holds, K >= 4 and at least 4 columns remain in the
\* row at its group; each grouped call stores 4 adjacent columns of one row
\* of one batch, computed from that same lhs row; the other columns of the
\* vector tier (at most 3 per row) use the single vector dot product; and
\* with hasNEON false or K < 4 every column is computed by the scalar loop.
C23_PrimitiveSelectionOrder ==
    ret = "true" =>
        /\ \A j \in DOMAIN writes :
              LET w == writes[j] IN
              /\ w.prim = "group4" <=> (VectorTier /\ ColumnsLeftAt(w.n) >= 4)
              /\ w.prim = "neon" <=> (VectorTier /\ ColumnsLeftAt(w.n) < 4)
              /\ w.prim = "scalar" <=> ~VectorTier
              /\ w.val = ScalarValue(w)
              /\ (w.prim = "group4" /\ w.n % 4 = 0) =>
                    /\ j + 3 <= Len(writes)
                    /\ \A d \in 1..3 :
                          /\ writes[j + d].prim = "group4"
                          /\ writes[j + d].batchIdx = w.batchIdx
                          /\ writes[j + d].m = w.m
                          /\ writes[j + d].n = w.n + d
                          /\ writes[j + d].idx = w.idx + d
        /\ \A b \in 0..(params.batchSize - 1), m \in 0..(params.lhsCrossSize - 1) :
              Cardinality({j \in DOMAIN writes :
                             /\ writes[j].prim = "neon"
                             /\ writes[j].batchIdx = b
                             /\ writes[j].m = m}) <= 3

\* A successful call on the vector tier with K = 4 and five columns: each
\* row has one grouped call and one leftover column on the single vector
\* dot product, and nothing is computed by the scalar loop.
C23_Witness ==
    /\ ret = "true" /\ hasNEON
    /\ params.contractingSize = 4 /\ params.rhsCrossSize = 5 /\ params.lhsCrossSize >= 1
    /\ Cardinality({j \in DOMAIN writes : writes[j].prim = "neon"})
          = params.batchSize * params.lhsCrossSize
    /\ Cardinality({j \in DOMAIN writes : writes[j].prim = "group4"})
          = 4 * params.batchSize * params.lhsCrossSize
    /\ \A j \in DOMAIN writes : writes[j].prim # "scalar"
    /\ \E j \in DOMAIN writes : writes[j].val # 0


\* The tokens of item i produced by decoder steps: generatedIDs[i] without
\* the forced BOS token.
Generated(g, i) ==
    IF g.config.ForcedBOSTokenID >= 0 THEN Tail(g.generatedIDs[i]) ELSE g.generatedIDs[i]

Last(q) == q[Len(q)]

\* C24: an item is marked finished only at a step index >= MinLength whose
\* token is EOSTokenID, so a finished item's sequence ends with EOS and has
\* at least MinLength generated tokens before it; an EOS token produced at
\* an earlier step is appended without finishing the item; and a finished
\* item's sequence is returned as it stands.
C24_NoEOSBeforeMinLength ==
    /\ [](gen.pc = "loop" =>
            \A i \in 1..bat.batchSize :
               gen.finished[i] =>
                  /\ Generated(gen, i) # <<>>
                  /\ Last(Generated(gen, i)) = gen.config.EOSTokenID
                  /\ Len(Generated(gen, i)) - 1 >= gen.config.MinLength)
    /\ [][(gen.pc = "loop" /\ gen'.pc = "loop") =>
            \A i \in 1..bat.batchSize :
               /\ (~gen.finished[i] /\ gen'.finished[i]) =>
                     /\ gen.step >= gen.config.MinLength
                     /\ Last(gen'.generatedIDs[i]) = gen.config.EOSTokenID
               /\ (~gen.finished[i] /\ gen.step < gen.config.MinLength) =>
                     /\ ~gen'.finished[i]
                     /\ Len(gen'.generatedIDs[i]) = Len(gen.generatedIDs[i]) + 1
         ]_vars
    /\ [][(gen.pc = "loop" /\ hist'.op = "Generate" /\ hist'.err = "nil") =>
            \A i \in 1..bat.batchSize :
               gen.finished[i] => gen'.ret[i] = gen.generatedIDs[i]]_vars

\* With MinLength = 1 an item produced EOS at step 0 and went on, then
\* produced EOS again at step 1 and was finished.
C24_Witness ==
    /\ gen.pc = "loop"
    /\ gen.config.MinLength = 1
    /\ gen.step = 2
    /\ \E i \in 1..bat.batchSize :
         /\ gen.finished[i]
         /\ Generated(gen, i) = <<gen.config.EOSTokenID, gen.config.EOSTokenID>>


\* --------------------------------------------------------------------------
\* kvCache.CurrentLength against the decoder position
\* --------------------------------------------------------------------------

\* After a successful RunDecoderInit that ran the decoder-init model the
\* cache length is the decoder position.
LengthAfterInit ==
    [][(hist'.op = "RunDecoderInit" /\ hist'.err = "nil" /\ hist'.called = <<"decoder_init">>) =>
         /\ ~bat'.kvCache.nil
         /\ bat'.kvCache.CurrentLength = bat'.currentPosition]_vars

\* After a successful RunDecoderStep that updated the cache it is as well.
LengthAfterStep ==
    [][(hist'.op = "RunDecoderStep" /\ hist'.err = "nil" /\ bat'.kvCache # bat.kvCache) =>
         /\ ~bat'.kvCache.nil
         /\ bat'.currentPosition = bat.currentPosition + 1
         /\ bat'.kvCache.CurrentLength = bat'.currentPosition]_vars

\* Apart from Destroy and DestroyDecoder no call makes the length smaller.
LengthNeverDecreases ==
    [][(hist'.op \notin {"Destroy", "DestroyDecoder"} /\ ~bat.kvCache.nil) =>
         /\ ~bat'.kvCache.nil
         /\ bat'.kvCache.CurrentLength >= bat.kvCache.CurrentLength]_vars

\* C25: after a successful RunDecoderInit that built the cache from a
\* decoder-init model, and after every successful RunDecoderStep that
\* returned updated cache tensors, kvCache.CurrentLength equals the batch's
\* currentPosition, and it never decreases between DestroyDecoder calls.
C25_CacheLengthTracksPosition ==
    /\ LengthAfterInit
    /\ LengthAfterStep
    /\ LengthNeverDecreases


\* C26: once item i is marked finished, no later decoder step appends to
\* generatedIDs[i] or changes currentIDs[i] and it stays finished while the
\* other items go on; the forced EOS token is appended to the unfinished
\* items only; and at every loop iteration numFinished is the number of
\* true entries of finished.
C26_FinishedItemsFrozen ==
    /\ [](gen.pc = "loop" =>
            gen.numFinished = Cardinality({i \in 1..bat.batchSize : gen.finished[i]}))
    /\ [][(gen.pc = "loop" /\ gen'.pc = "loop") =>
            \A i \in 1..bat.batchSize :
               gen.finished[i] =>
                  /\ gen'.finished[i]
                  /\ gen'.generatedIDs[i] = gen.generatedIDs[i]
                  /\ gen'.currentIDs[i] = gen.currentIDs[i]
         ]_vars
    /\ [][(gen.pc = "loop" /\ hist'.op = "Generate" /\ hist'.err = "nil") =>
            \A i \in 1..bat.batchSize :
               gen'.ret[i] = IF ~gen.finished[i] /\ gen.config.ForcedEOSTokenID >= 0
                             THEN Append(gen.generatedIDs[i], gen.config.ForcedEOSTokenID)
                             ELSE gen.generatedIDs[i]
         ]_vars

\* Of two items the first finished at step 0 and kept its single token
\* while the second received a token at step 1 as well and is unfinished.
C26_Witness ==
    /\ gen.pc = "loop"
    /\ bat.batchSize = 2
    /\ gen.step = 2
    /\ gen.finished = <<TRUE, FALSE>>
    /\ gen.config.ForcedBOSTokenID < 0
    /\ gen.generatedIDs[1] = <<gen.config.EOSTokenID>>
    /\ Len(gen.generatedIDs[2]) = 2
    /\ gen.currentIDs[1] = gen.config.EOSTokenID

====
